---- MODULE Spec2Model ----
(***************************************************************************)
(* A state-machine model of the DMG emulator core: the interrupt          *)
(* controller, the timer, the PPU scanline state machine, the memory bus  *)
(* with its OAM DMA engine, the CPU's fetch/execute/interrupt logic and   *)
(* the system scheduler (Emulator::step).                                 *)
(*                                                                         *)
(* Rust structs are records, methods are operators from the old record to *)
(* the new one, and every scheduler step or bus call is one action.       *)
(* The frame buffer is not part of the state; scanline_cell gives the    *)
(* pixels render_scanline writes to it.                                    *)
(***************************************************************************)
EXTENDS Integers, Sequences, FiniteSets, TLC

VARIABLES
    cpu,    \* Cpu (cpu.rs:47-66)
    bus,    \* MemoryBus (memory.rs:23-64), owning the Timer and the Ppu
    ev      \* observation of the last operation performed, and history

vars == <<cpu, bus, ev>>

(***************************************************************************)
(* Sequencing: B applied to the value of e (e is evaluated first).         *)
(***************************************************************************)
Then(e, B(_)) == CHOOSE r \in { B(v) : v \in {e} } : TRUE

(***************************************************************************)
(* Fixed-width arithmetic                                                  *)
(***************************************************************************)
U8(x)  == (x + 256) % 256
U16(x) == (x + 65536) % 65536

RECURSIVE BitAnd(_, _)
BitAnd(a, b) ==
    IF a = 0 \/ b = 0 THEN 0
    ELSE (a % 2) * (b % 2) + 2 * BitAnd(a \div 2, b \div 2)

RECURSIVE BitOr(_, _)
BitOr(a, b) ==
    IF a = 0 THEN b
    ELSE IF b = 0 THEN a
    ELSE (IF a % 2 = 1 \/ b % 2 = 1 THEN 1 ELSE 0) + 2 * BitOr(a \div 2, b \div 2)

\* !m on a u8
Not8(m) == 255 - m

Pow2(i) == 2 ^ i

\* (x >> i) & 1
Bit(x, i) == (x \div Pow2(i)) % 2

Shl8(x, n) == (x * Pow2(n)) % 256

(***************************************************************************)
(* Sparse byte arrays: a function from the indices that hold a value other *)
(* than the array's fill value to that value.                              *)
(***************************************************************************)
ArrGet(m, i, fill) == IF i \in DOMAIN m THEN m[i] ELSE fill

ArrPut(m, i, v, fill) ==
    IF v = fill
    THEN [x \in (DOMAIN m) \ {i} |-> m[x]]
    ELSE [x \in (DOMAIN m) \cup {i} |-> IF x = i THEN v ELSE m[x]]

EmptyArr == [x \in {} |-> 0]

(***************************************************************************)
(* Interrupt controller (interrupts.rs)                                    *)
(***************************************************************************)
VBlank  == 0
LcdStat == 1
Timer   == 2
Serial  == 3
Joypad  == 4
InterruptType == {VBlank, LcdStat, Timer, Serial, Joypad}

\* Option::None, for Option<InterruptType> and Option<u8>: a value that is no
\* byte, no word and no interrupt type, so that Some(v) is v for every v
None == -1

\* InterruptController::request_interrupt: *if_reg |= 1 << interrupt
IcRequest(if_reg, interrupt) == BitOr(if_reg, Pow2(interrupt))

\* InterruptController::clear_interrupt: *if_reg &= !(1 << interrupt)
IcClear(if_reg, interrupt) == BitAnd(if_reg, Not8(Pow2(interrupt)))

\* MemoryBus::get_ie / get_if
get_ie(b) == BitOr(b.ie_register, 224)
get_if(b) == ArrGet(b.io_registers, 15, 0)

\* set_if storing the written byte as it is
set_if_unmasked(b, value) ==
    [b EXCEPT !.io_registers = ArrPut(@, 15, value, 0)]

\* MemoryBus::set_if
set_if(b, value) ==
    [b EXCEPT !.io_registers = ArrPut(@, 15, BitOr(BitAnd(value, 31), 224), 0)]

\* MemoryBus::set_ie
set_ie(b, value) ==
    [b EXCEPT !.ie_register = BitOr(BitAnd(value, 31), 224)]

\* MemoryBus::request_interrupt / clear_interrupt
request_interrupt(b, interrupt) ==
    [b EXCEPT !.io_registers = ArrPut(@, 15, IcRequest(get_if(b), interrupt), 0)]
clear_interrupt(b, interrupt) ==
    [b EXCEPT !.io_registers = ArrPut(@, 15, IcClear(get_if(b), interrupt), 0)]

\* ie & if_reg & 0x1F
pending_bits(b) == BitAnd(BitAnd(get_ie(b), get_if(b)), 31)

\* InterruptController::has_pending_interrupts
has_pending_interrupts(b) == pending_bits(b) # 0

\* The priority chain taken from the highest bit index down
priority_last_first(pending) ==
    IF pending = 0 THEN None
    ELSE IF Bit(pending, 4) # 0 THEN Joypad
    ELSE IF Bit(pending, 3) # 0 THEN Serial
    ELSE IF Bit(pending, 2) # 0 THEN Timer
    ELSE IF Bit(pending, 1) # 0 THEN LcdStat
    ELSE VBlank

\* The priority chain of get_highest_priority_interrupt, on the pending bits
priority_of(pending) ==
    IF pending = 0 THEN None
    ELSE IF BitAnd(pending, 1) # 0 THEN VBlank
    ELSE IF BitAnd(pending, 2) # 0 THEN LcdStat
    ELSE IF BitAnd(pending, 4) # 0 THEN Timer
    ELSE IF BitAnd(pending, 8) # 0 THEN Serial
    ELSE Joypad

\* InterruptController::get_highest_priority_interrupt
get_highest_priority_interrupt(b) == priority_of(pending_bits(b))

\* InterruptController::get_interrupt_vector
get_interrupt_vector(interrupt) == 64 + interrupt * 8

(***************************************************************************)
(* Timer (timer.rs)                                                        *)
(***************************************************************************)
\* Timer::new
TimerNew ==
    [ div_counter          |-> 43980,      \* 0xABCC
      tima                 |-> 0,
      tma                  |-> 0,
      tac                  |-> 248,        \* 0xF8
      previous_and_result  |-> FALSE,
      tima_overflow        |-> FALSE,
      tima_overflow_cycles |-> 0,
      queued_tima_write    |-> None ]

\* A clock select that watches bit 8 where the source watches bit 9
bit_position_low(tac) ==
    CASE tac % 4 = 0 -> 8
      [] tac % 4 = 1 -> 3
      [] tac % 4 = 2 -> 5
      [] tac % 4 = 3 -> 7

\* match self.tac & 0x03 { 0 => 9, 1 => 3, 2 => 5, 3 => 7 }
bit_position(tac) ==
    CASE tac % 4 = 0 -> 9
      [] tac % 4 = 1 -> 3
      [] tac % 4 = 2 -> 5
      [] tac % 4 = 3 -> 7

\* (div_counter & (1 << bit_position)) != 0 && (tac & 0x04) != 0
and_result(div_counter, tac) ==
    Bit(div_counter, bit_position(tac)) # 0 /\ Bit(tac, 2) # 0

\* Timer::update_cycle, the overflow delay (timer.rs:78-100)
update_overflow(t) ==
    IF ~t.tima_overflow THEN [timer |-> t, irq |-> FALSE]
    ELSE IF t.tima_overflow_cycles + 1 = 4
    THEN [timer |-> [t EXCEPT
                       !.tima = IF t.queued_tima_write # None
                                THEN t.queued_tima_write ELSE t.tma,
                       !.queued_tima_write = None,
                       !.tima_overflow = FALSE,
                       !.tima_overflow_cycles = 0],
          irq |-> TRUE]
    ELSE [timer |-> [t EXCEPT !.tima_overflow_cycles = @ + 1, !.tima = 0],
          irq |-> FALSE]

\* Timer::update_cycle, the falling-edge increment (timer.rs:59-76)
update_edge(t, current) ==
    IF t.previous_and_result /\ ~current /\ ~t.tima_overflow
    THEN [t EXCEPT !.tima = IF @ = 255 THEN 0 ELSE @ + 1,
                   !.tima_overflow = (t.tima = 255),
                   !.tima_overflow_cycles = IF t.tima = 255 THEN 0 ELSE @,
                   !.previous_and_result = current]
    ELSE [t EXCEPT !.previous_and_result = current]

\* Timer::update_cycle: one t-cycle; returns the timer and the interrupt request
update_cycle(t) ==
    update_overflow(
        update_edge([t EXCEPT !.div_counter = U16(@ + 1)],
                    and_result(U16(t.div_counter + 1), t.tac)))

\* The TIMA increment shared by set_div and set_tac (overflowing_add)
write_edge_increment(t) ==
    IF t.tima_overflow THEN t
    ELSE [t EXCEPT !.tima = U8(@ + 1),
                   !.tima_overflow = (t.tima = 255),
                   !.tima_overflow_cycles = IF t.tima = 255 THEN 0 ELSE @]

\* A DIV read that returns the low byte of the counter
get_div_low(t) == t.div_counter % 256

\* Timer::get_div
get_div(t) == t.div_counter \div 256

\* A DIV write that resets the counter without looking for a falling edge
set_div_plain(t, value) ==
    [t EXCEPT !.div_counter = 0, !.previous_and_result = FALSE]

\* Timer::set_div
set_div(t, value) ==
    IF and_result(t.div_counter, t.tac)
    THEN [write_edge_increment(t) EXCEPT !.div_counter = 0,
                                         !.previous_and_result = FALSE]
    ELSE [t EXCEPT !.div_counter = 0, !.previous_and_result = FALSE]

\* A TIMA write that is never deferred
set_tima_now(t, value) == [t EXCEPT !.tima = value]

\* Timer::set_tima
set_tima(t, value) ==
    IF t.tima_overflow THEN [t EXCEPT !.queued_tima_write = value]
    ELSE [t EXCEPT !.tima = value]

\* Timer::set_tma
set_tma(t, value) == [t EXCEPT !.tma = value]

\* A TAC write that increments TIMA on a falling edge but leaves the stored
\* AND-result as it was
set_tac_edge_stale(t, current) ==
    IF t.previous_and_result /\ ~current
    THEN write_edge_increment(t)
    ELSE t

\* Timer::set_tac, the edge check once the register has changed (timer.rs:185-212)
set_tac_edge(t, current) ==
    IF t.previous_and_result /\ ~current
    THEN [write_edge_increment(t) EXCEPT !.previous_and_result = current]
    ELSE [t EXCEPT !.previous_and_result = current]

\* Timer::set_tac
set_tac(t, value) ==
    IF t.tac # value % 8
    THEN set_tac_edge([t EXCEPT !.tac = value % 8],
                      and_result(t.div_counter, value % 8))
    ELSE [t EXCEPT !.tac = value % 8]

(***************************************************************************)
(* PPU (ppu.rs): storage, registers and the scanline state machine         *)
(***************************************************************************)
\* LcdMode as u8
ModeNum(mode) ==
    CASE mode = "HBlank"  -> 0
      [] mode = "VBlank"  -> 1
      [] mode = "OamScan" -> 2
      [] mode = "Drawing" -> 3

\* Ppu::new
PpuNew ==
    [ vram |-> EmptyArr, oam |-> EmptyArr, oam_entries |-> EmptyArr,
      scanline_sprites |-> <<>>,
      lcdc |-> 145, stat |-> 133, scy |-> 0, scx |-> 0, ly |-> 0, lyc |-> 0,
      dma |-> 255, bgp |-> 252, obp0 |-> 255, obp1 |-> 255, wy |-> 0, wx |-> 0,
      mode |-> "VBlank", mode_cycles |-> 0,
      vram_accessible |-> TRUE, oam_accessible |-> TRUE,
      frame_ready |-> FALSE,
      oam_dma_active |-> FALSE, oam_dma_byte |-> 0,
      fetcher_x |-> 0, window_line |-> 0, window_active |-> FALSE,
      last_frame_window_active |-> FALSE,
      lyc_interrupt_triggered |-> FALSE,
      cpu_vram_bus_conflict |-> FALSE, cpu_oam_bus_conflict |-> FALSE ]

\* lcdc & 0x80
lcd_enabled(p) == p.lcdc >= 128

\* Ppu::read_vram
read_vram(p, addr) ==
    IF ~p.vram_accessible /\ lcd_enabled(p) THEN 255
    ELSE ArrGet(p.vram, addr - 32768, 0)

\* Ppu::write_vram
write_vram(p, addr, value) ==
    IF ~p.vram_accessible /\ lcd_enabled(p)
    THEN [p EXCEPT !.cpu_vram_bus_conflict = TRUE]
    ELSE [p EXCEPT !.vram = ArrPut(@, addr - 32768, value, 0)]

\* Ppu::read_oam
read_oam(p, addr) ==
    IF addr - 65024 >= 160 THEN 255
    ELSE IF ~p.oam_accessible /\ lcd_enabled(p) THEN 255
    ELSE IF p.oam_dma_active THEN 255
    ELSE ArrGet(p.oam, addr - 65024, 0)

\* Ppu::write_oam
write_oam(p, addr, value) ==
    IF addr - 65024 >= 160 THEN p
    ELSE IF ~p.oam_accessible /\ lcd_enabled(p)
    THEN [p EXCEPT !.cpu_oam_bus_conflict = TRUE]
    ELSE IF p.oam_dma_active THEN p
    ELSE [p EXCEPT !.oam = ArrPut(@, addr - 65024, value, 0),
                   !.oam_entries = ArrPut(@, addr - 65024, value, 0)]

\* Ppu::begin_oam_dma
ppu_begin_oam_dma(p, value) ==
    [p EXCEPT !.dma = value, !.oam_dma_active = TRUE, !.oam_dma_byte = 0]

\* The latched DMA source page, value << 8
oam_dma_source(p) == p.dma * 256

\* The DMA engine's OAM store, which bypasses the CPU access checks
write_oam_internal(p, pos, value) ==
    [p EXCEPT !.oam = ArrPut(@, pos, value, 0),
              !.oam_entries = ArrPut(@, pos, value, 0)]

\* oam_entries[pos / 4] = OamEntry::from_bytes(oam[start .. start + 4]), made
\* when the byte stored at pos is the entry's last (ppu.rs:230-236, 329-336)
refresh_entry(p, pos) ==
    IF pos % 4 = 3
    THEN [p EXCEPT !.oam_entries =
            ArrPut(ArrPut(ArrPut(ArrPut(@,
                pos - 3, ArrGet(p.oam, pos - 3, 0), 0),
                pos - 2, ArrGet(p.oam, pos - 2, 0), 0),
                pos - 1, ArrGet(p.oam, pos - 1, 0), 0),
                pos, ArrGet(p.oam, pos, 0), 0)]
    ELSE p

\* Ppu::process_dma_byte does not return: the position, which
\* process_oam_dma leaves at 160 after the last byte, indexes past the end
\* of OAM (ppu.rs:227)
process_dma_byte_aborts(p) == p.oam_dma_active /\ p.oam_dma_byte >= 160

\* Ppu::process_dma_byte(value); update_oam_entries at the end of the
\* transfer rebuilds every entry from OAM
process_dma_byte(p, value) ==
    IF ~p.oam_dma_active THEN p
    ELSE Then(refresh_entry([p EXCEPT !.oam = ArrPut(@, p.oam_dma_byte, value, 0)],
                            p.oam_dma_byte), LAMBDA q :
        IF q.oam_dma_byte + 1 >= 160
        THEN [q EXCEPT !.oam_dma_active = FALSE, !.oam_dma_byte = 0,
                       !.oam_entries = q.oam]
        ELSE [q EXCEPT !.oam_dma_byte = @ + 1])

\* The address Ppu::process_oam_dma hands to its mem_read closure
process_oam_dma_addr(p) == p.dma * 256 + p.oam_dma_byte

\* Ppu::process_oam_dma(mem_read), value being what the closure returns for
\* process_oam_dma_addr: the PPU and the bool returned.  The call that
\* stores byte 159 leaves the transfer active at position 160, and the
\* next call ends it
process_oam_dma(p, value) ==
    IF ~p.oam_dma_active THEN [ppu |-> p, val |-> FALSE]
    ELSE IF p.oam_dma_byte < 160
    THEN [ppu |-> [refresh_entry([p EXCEPT !.oam = ArrPut(@, p.oam_dma_byte, value, 0)],
                                 p.oam_dma_byte)
                   EXCEPT !.oam_dma_byte = @ + 1],
          val |-> TRUE]
    ELSE [ppu |-> [p EXCEPT !.oam_dma_active = FALSE, !.oam_dma_byte = 0],
          val |-> FALSE]

\* Ppu::reset_window_line
reset_window_line(p) == [p EXCEPT !.window_line = 0]

\* Ppu::set_vram_accessible
set_vram_accessible(p, accessible) == [p EXCEPT !.vram_accessible = accessible]

\* Ppu::set_oam_accessible
set_oam_accessible(p, accessible) == [p EXCEPT !.oam_accessible = accessible]

\* Ppu::read_register
read_register(p, addr) ==
    CASE addr = 65344 -> p.lcdc
      [] addr = 65345 ->
            BitOr(BitOr(BitAnd(p.stat, 248), IF p.ly = p.lyc THEN 4 ELSE 0),
                  ModeNum(p.mode))
      [] addr = 65346 -> p.scy
      [] addr = 65347 -> p.scx
      [] addr = 65348 -> p.ly
      [] addr = 65349 -> p.lyc
      [] addr = 65350 -> p.dma
      [] addr = 65351 -> p.bgp
      [] addr = 65352 -> p.obp0
      [] addr = 65353 -> p.obp1
      [] addr = 65354 -> p.wy
      [] addr = 65355 -> p.wx
      [] OTHER -> 255

\* An LCDC write that stores the byte and leaves the PPU's position alone
write_lcdc_store(p, value) == [p EXCEPT !.lcdc = value]

\* Ppu::write_register, LCDC (ppu.rs:373-394)
write_lcdc(p, value) ==
    IF lcd_enabled(p) /\ value < 128
    THEN [p EXCEPT !.lcdc = value, !.ly = 0, !.mode = "HBlank", !.mode_cycles = 0,
                   !.vram_accessible = TRUE, !.oam_accessible = TRUE,
                   !.window_line = 0]
    ELSE IF ~lcd_enabled(p) /\ value >= 128
    THEN [p EXCEPT !.lcdc = value, !.mode_cycles = 0, !.mode = "OamScan"]
    ELSE [p EXCEPT !.lcdc = value]

\* Ppu::write_register
write_register(p, addr, value) ==
    CASE addr = 65344 -> write_lcdc(p, value)
      [] addr = 65345 ->
            [p EXCEPT
               !.stat = BitOr(BitAnd(value, 120), BitAnd(p.stat, 7)),
               !.lyc_interrupt_triggered =
                   IF p.ly = p.lyc /\ Bit(value, 6) # 0 THEN TRUE ELSE @]
      [] addr = 65346 -> [p EXCEPT !.scy = value]
      [] addr = 65347 -> [p EXCEPT !.scx = value]
      [] addr = 65349 ->
            IF p.ly = value
            THEN [p EXCEPT
                    !.lyc = value,
                    !.stat = BitOr(p.stat, 4),
                    !.lyc_interrupt_triggered =
                        IF Bit(p.stat, 6) # 0 THEN TRUE ELSE @]
            ELSE [p EXCEPT !.lyc = value, !.stat = BitAnd(p.stat, Not8(4))]
      [] addr = 65351 -> [p EXCEPT !.bgp = value]
      [] addr = 65352 -> [p EXCEPT !.obp0 = value]
      [] addr = 65353 -> [p EXCEPT !.obp1 = value]
      [] addr = 65354 -> [p EXCEPT !.wy = value]
      [] addr = 65355 -> [p EXCEPT !.wx = value]
      [] OTHER -> p

\* oam_entries[i], with its index: the record keeps the four bytes of entry
\* i at 4*i .. 4*i+3 of oam_entries
OamEntry(p, i) ==
    [ idx        |-> i,
      y_pos      |-> ArrGet(p.oam_entries, 4 * i, 0),
      x_pos      |-> ArrGet(p.oam_entries, 4 * i + 1, 0),
      tile_idx   |-> ArrGet(p.oam_entries, 4 * i + 2, 0),
      attributes |-> ArrGet(p.oam_entries, 4 * i + 3, 0) ]

\* OamEntry::is_on_scanline
is_on_scanline(y_pos, ly, sprite_size) ==
    ly >= U8(y_pos - 16) /\ ly < U8(U8(y_pos - 16) + sprite_size)

\* sort_by (x_pos, then OAM index) of a set of entries, as a sequence
RECURSIVE SortSprites(_)
SortSprites(S) ==
    IF S = {} THEN <<>>
    ELSE Then(CHOOSE e \in S :
                \A o \in S : \/ e.x_pos < o.x_pos
                             \/ (e.x_pos = o.x_pos /\ e.idx <= o.idx),
              LAMBDA m : <<m>> \o SortSprites(S \ {m}))

\* truncate(10), then reverse()
TruncateReverse(q) ==
    [i \in 1..(IF Len(q) > 10 THEN 10 ELSE Len(q)) |->
        q[(IF Len(q) > 10 THEN 10 ELSE Len(q)) + 1 - i]]

\* Ppu::prepare_sprites_for_scanline
prepare_sprites_for_scanline(p) ==
    IF Bit(p.lcdc, 1) = 0 THEN [p EXCEPT !.scanline_sprites = <<>>]
    ELSE [p EXCEPT !.scanline_sprites =
            TruncateReverse(SortSprites(
                { OamEntry(p, i) : i \in
                    { j \in 0..39 :
                        is_on_scanline(ArrGet(p.oam_entries, 4 * j, 0), p.ly,
                                       IF Bit(p.lcdc, 2) # 0 THEN 16 ELSE 8) } }))]

\* A Drawing mode with no sprite penalty
sprite_cycles_none(p) == 0

\* min(scanline_sprites.len() * 6, 60)
sprite_cycles(p) ==
    IF Len(p.scanline_sprites) * 6 < 60 THEN Len(p.scanline_sprites) * 6 ELSE 60

\* Ppu::get_color
get_color(color_idx, palette) == (palette \div (4 ^ color_idx)) % 4

\* (color_bit_high << 1) | color_bit_low of two tile data bytes
color_index(low, high, bit_pos) == 2 * Bit(high, bit_pos) + Bit(low, bit_pos)

\* The address of a tile's data for LCDC bit 4 (0x8000 unsigned, 0x8800 signed)
tile_data_index(p, tile_index) ==
    IF Bit(p.lcdc, 4) # 0 THEN 32768 + tile_index * 16
    ELSE 34816 + ((IF tile_index >= 128 THEN tile_index - 256 ELSE tile_index) + 128) * 16

\* The cell (color, non-zero flag) of a background or window pixel: column
\* x_pos and row y_pos of the tile map at tile_map_addr
map_cell(p, tile_map_addr, x_pos, y_pos) ==
    Then(tile_data_index(p, read_vram(p, tile_map_addr + (y_pos \div 8) * 32 + (x_pos \div 8)))
            + (y_pos % 8) * 2,
         LAMBDA a :
    Then(color_index(read_vram(p, a), read_vram(p, a + 1), 7 - (x_pos % 8)),
         LAMBDA color_idx :
        [color |-> get_color(color_idx, p.bgp), nonzero |-> color_idx > 0]))

\* Ppu::render_background, cell x of the scanline buffer
render_background(p, x) ==
    map_cell(p, IF Bit(p.lcdc, 3) # 0 THEN 39936 ELSE 38912,
             U8(x + p.scx), U8(p.ly + p.scy))

\* Ppu::render_window, the tests before the pixel loop (ppu.rs:753-775): the
\* window is drawn on this line.  The loop then draws at least one pixel
\* (wx - 7 is below 160), so `rendered` is true exactly in this case.
window_drawn(p) ==
    Bit(p.lcdc, 5) # 0 /\ Bit(p.lcdc, 0) # 0 /\ p.ly >= p.wy /\ p.wx < 167

\* Ppu::render_window, cell x of the scanline buffer: row window_line of the
\* window's map (ppu.rs:785), window_line being the value before the call
render_window(p, cell, x) ==
    IF ~window_drawn(p) \/ x < (IF p.wx < 7 THEN 0 ELSE p.wx - 7)
    THEN cell
    ELSE map_cell(p, IF Bit(p.lcdc, 6) # 0 THEN 39936 ELSE 38912,
                  U8(x - (IF p.wx < 7 THEN 0 ELSE p.wx - 7)), p.window_line)

\* if self.lcdc & 0x04 != 0 { 16 } else { 8 }
sprite_size(p) == IF Bit(p.lcdc, 2) # 0 THEN 16 ELSE 8

\* Ppu::render_sprites: (self.ly - sprite_y) as u16, wrapped (ppu.rs:894)
sprite_line(p, sprite) == U8(p.ly - U8(sprite.y_pos - 16))

\* Ppu::render_sprites: y_offset after the y flip, wrapped (ppu.rs:895-897)
sprite_y_offset(p, sprite) ==
    IF Bit(sprite.attributes, 6) # 0
    THEN U16(sprite_size(p) - 1 - sprite_line(p, sprite))
    ELSE sprite_line(p, sprite)

\* Ppu::render_sprites: one of the two subtractions overflows (ly below the
\* sprite's first line, or a flipped row beyond the sprite's height); a build
\* with overflow checks panics there, a build without them wraps
sprite_row_overflows(p, sprite) ==
    \/ p.ly < U8(sprite.y_pos - 16)
    \/ Bit(sprite.attributes, 6) # 0 /\ sprite_line(p, sprite) > sprite_size(p) - 1

\* Ppu::render_sprites: tile_data_addr, computed with wrapping u16 arithmetic
\* (ppu.rs:886-906).  Only an 8x16 sprite folds rows 8-15 into the next tile;
\* an 8x8 sprite reads at tile_idx * 16 + y_offset * 2 whatever y_offset is.
sprite_row_addr(p, sprite) ==
    Then(sprite_y_offset(p, sprite), LAMBDA y_offset :
        IF sprite_size(p) = 16
        THEN U16(32768
                 + ((sprite.tile_idx - (sprite.tile_idx % 2))
                      + (IF y_offset >= 8 THEN 1 ELSE 0)) * 16
                 + (IF y_offset >= 8 THEN y_offset - 8 ELSE y_offset) * 2)
        ELSE U16(32768 + sprite.tile_idx * 16 + y_offset * 2))

\* Ppu::read_vram called with an address that is not in VRAM: addr - 0x8000
\* overflows or the index is out of bounds, and every build panics (ppu.rs:197)
vram_index_fails(p, addr) ==
    (p.vram_accessible \/ ~lcd_enabled(p)) /\ (addr < 32768 \/ addr >= 40960)

\* Ppu::render_sprites: the two reads of a sprite's row; the second address is
\* tile_data_addr + 1 (ppu.rs:909-910)
sprite_row_fails(p, sprite) ==
    \/ vram_index_fails(p, sprite_row_addr(p, sprite))
    \/ vram_index_fails(p, sprite_row_addr(p, sprite) + 1)

\* Ppu::render_sprites: the colour index of a sprite at screen column x, 0
\* where the sprite does not reach, None where the row cannot be read
\* (ppu.rs:871-930, the arithmetic wrapped)
sprite_color_idx(p, sprite, x) ==
    IF sprite.x_pos = 0 THEN 0
    ELSE IF sprite_row_fails(p, sprite) THEN None
    ELSE IF U8(x - U8(sprite.x_pos - 8)) >= 8 THEN 0
    ELSE
      Then(sprite_row_addr(p, sprite), LAMBDA tile_data_addr :
        color_index(read_vram(p, tile_data_addr), read_vram(p, tile_data_addr + 1),
                    IF Bit(sprite.attributes, 5) # 0
                    THEN U8(x - U8(sprite.x_pos - 8))
                    ELSE 7 - U8(x - U8(sprite.x_pos - 8))))

\* The cell of a line whose rendering did not complete
NoCell == [color |-> None, nonzero |-> FALSE]

\* Ppu::render_sprites, one sprite at cell x (ppu.rs:931-954)
sprite_pixel(p, sprite, cell, x) ==
    IF sprite_color_idx(p, sprite, x) = None THEN NoCell
    ELSE IF sprite_color_idx(p, sprite, x) = 0 THEN cell
    ELSE IF ~cell.nonzero \/ Bit(sprite.attributes, 7) = 0 \/ Bit(p.lcdc, 0) = 0
    THEN [color |-> get_color(sprite_color_idx(p, sprite, x),
                              IF Bit(sprite.attributes, 4) # 0 THEN p.obp1 ELSE p.obp0),
          nonzero |-> FALSE]
    ELSE cell

\* Ppu::render_sprites, the loop over scanline_sprites at cell x
RECURSIVE sprites_over(_, _, _, _)
sprites_over(p, q, cell, x) ==
    IF q = <<>> \/ cell = NoCell THEN cell
    ELSE sprites_over(p, Tail(q), sprite_pixel(p, Head(q), cell, x), x)

\* Ppu::render_sprites, cell x of the scanline buffer
render_sprites(p, cell, x) ==
    IF Bit(p.lcdc, 1) = 0 THEN cell ELSE sprites_over(p, p.scanline_sprites, cell, x)

\* Ppu::render_scanline with the LCD on: cell x of the scanline buffer that
\* finalize_scanline copies to the frame buffer (ppu.rs:661-685); p is the PPU
\* as it is when render_scanline is called
scanline_cell(p, x) ==
    Then(IF Bit(p.lcdc, 0) # 0 THEN render_background(p, x)
         ELSE [color |-> 0, nonzero |-> FALSE], LAMBDA bg :
    Then(IF Bit(p.lcdc, 5) # 0 THEN render_window(p, bg, x) ELSE bg, LAMBDA win :
        IF Bit(p.lcdc, 1) # 0 THEN render_sprites(p, win, x) ELSE win))

\* Ppu::render_scanline does not return: a drawn sprite's row cannot be read
\* (every build), or its row arithmetic overflows in a build with overflow
\* checks (checked)
render_aborts(p, checked) ==
    /\ lcd_enabled(p) /\ Bit(p.lcdc, 1) # 0
    /\ \E i \in DOMAIN p.scanline_sprites :
          /\ p.scanline_sprites[i].x_pos # 0
          /\ \/ sprite_row_fails(p, p.scanline_sprites[i])
             \/ checked /\ sprite_row_overflows(p, p.scanline_sprites[i])

\* Ppu::render_scanline as Ppu::update sees it: of what it writes the PPU
\* record keeps window_line, which render_window advances on a line where it
\* draws (ppu.rs:850-852); the frame buffer is left out
render_scanline(p) ==
    IF lcd_enabled(p) /\ window_drawn(p)
    THEN [p EXCEPT !.window_line = @ + 1]
    ELSE p

\* Ppu::update(cycles) renders a line: Drawing ends within these cycles
update_renders(p, cycles) ==
    /\ lcd_enabled(p) /\ p.mode = "Drawing"
    /\ p.mode_cycles + cycles >= 172 + sprite_cycles(p)

\* The PPU as render_scanline finds it when Ppu::update(cycles) renders a
\* line, in the fields rendering reads (ppu.rs:522-530: VRAM is opened first)
update_render_input(p) == [p EXCEPT !.vram_accessible = TRUE]

\* Ppu::update(cycles) does not return (see render_aborts)
update_aborts(p, cycles, checked) ==
    update_renders(p, cycles) /\ render_aborts(update_render_input(p), checked)

\* Ppu::update, the LY=LYC block (ppu.rs:464-479)
update_lyc(p) ==
    IF p.ly = p.lyc
    THEN [ppu |-> [p EXCEPT !.stat = BitOr(p.stat, 4),
                            !.lyc_interrupt_triggered =
                                IF Bit(p.stat, 6) # 0 THEN TRUE ELSE @],
          irq |-> IF Bit(p.stat, 6) # 0 /\ ~p.lyc_interrupt_triggered
                  THEN LcdStat ELSE None]
    ELSE [ppu |-> [p EXCEPT !.stat = BitAnd(p.stat, Not8(4)),
                            !.lyc_interrupt_triggered = FALSE],
          irq |-> None]

\* Ppu::update, Mode 2 (ppu.rs:483-508)
update_oam_scan(p, irq0) ==
    IF p.mode_cycles >= 80
    THEN [ppu |-> [prepare_sprites_for_scanline(
                      [p EXCEPT !.mode = "Drawing",
                                !.mode_cycles = @ - 80,
                                !.oam_accessible = FALSE,
                                !.vram_accessible = FALSE])
                   EXCEPT !.fetcher_x = 0,
                          !.window_active =
                              Bit(p.lcdc, 5) # 0 /\ p.ly >= p.wy /\ p.wx <= 166],
          irq |-> IF Bit(p.stat, 5) # 0 THEN LcdStat ELSE irq0]
    ELSE [ppu |-> [p EXCEPT !.oam_accessible = FALSE, !.vram_accessible = TRUE],
          irq |-> irq0]

\* Ppu::update, Mode 3 (ppu.rs:509-536)
update_drawing(p, irq0) ==
    IF p.mode_cycles >= 172 + sprite_cycles(p)
    THEN [ppu |-> render_scanline(
                    [p EXCEPT !.mode = "HBlank",
                              !.mode_cycles = @ - (172 + sprite_cycles(p)),
                              !.vram_accessible = TRUE,
                              !.oam_accessible = TRUE]),
          irq |-> IF Bit(p.stat, 3) # 0 THEN LcdStat ELSE irq0]
    ELSE [ppu |-> [p EXCEPT !.oam_accessible = FALSE, !.vram_accessible = FALSE],
          irq |-> irq0]

\* Ppu::update, Mode 0 (ppu.rs:537-578)
update_hblank(p, irq0) ==
    IF p.mode_cycles < 456 - (80 + 172 + sprite_cycles(p))
    THEN [ppu |-> [p EXCEPT !.vram_accessible = TRUE, !.oam_accessible = TRUE],
          irq |-> irq0]
    ELSE IF p.ly + 1 = 144
    THEN [ppu |-> [p EXCEPT !.vram_accessible = TRUE, !.oam_accessible = TRUE,
                            !.mode_cycles = @ - (456 - (80 + 172 + sprite_cycles(p))),
                            !.ly = 144,
                            !.lyc_interrupt_triggered = FALSE,
                            !.mode = "VBlank",
                            !.frame_ready = TRUE],
          irq |-> IF Bit(p.stat, 4) # 0 THEN LcdStat ELSE VBlank]
    ELSE [ppu |-> [p EXCEPT !.vram_accessible = TRUE, !.oam_accessible = TRUE,
                            !.mode_cycles = @ - (456 - (80 + 172 + sprite_cycles(p))),
                            !.ly = (p.ly + 1) % 154,
                            !.lyc_interrupt_triggered = FALSE,
                            !.mode = "OamScan"],
          irq |-> IF Bit(p.stat, 5) # 0 THEN LcdStat ELSE irq0]

\* Ppu::update, Mode 1 (ppu.rs:579-606)
update_vblank(p, irq0) ==
    IF p.mode_cycles < 456
    THEN [ppu |-> [p EXCEPT !.vram_accessible = TRUE, !.oam_accessible = TRUE],
          irq |-> irq0]
    ELSE IF (p.ly + 1) % 154 = 0
    THEN [ppu |-> [p EXCEPT !.vram_accessible = TRUE, !.oam_accessible = TRUE,
                            !.mode_cycles = @ - 456,
                            !.ly = 0,
                            !.lyc_interrupt_triggered = FALSE,
                            !.window_line = IF p.last_frame_window_active THEN @ ELSE 0,
                            !.last_frame_window_active = FALSE,
                            !.mode = "OamScan"],
          irq |-> IF Bit(p.stat, 5) # 0 THEN LcdStat ELSE irq0]
    ELSE [ppu |-> [p EXCEPT !.vram_accessible = TRUE, !.oam_accessible = TRUE,
                            !.mode_cycles = @ - 456,
                            !.ly = (p.ly + 1) % 154,
                            !.lyc_interrupt_triggered = FALSE],
          irq |-> irq0]

\* Ppu::update, the mode state machine (ppu.rs:481-606) on update_lyc's result
update_mode(a) ==
    CASE a.ppu.mode = "OamScan" -> update_oam_scan(a.ppu, a.irq)
      [] a.ppu.mode = "Drawing" -> update_drawing(a.ppu, a.irq)
      [] a.ppu.mode = "HBlank"  -> update_hblank(a.ppu, a.irq)
      [] a.ppu.mode = "VBlank"  -> update_vblank(a.ppu, a.irq)

\* Ppu::update, the mode bits of STAT (ppu.rs:608-611)
update_stat_mode(m) ==
    [ppu |-> [m.ppu EXCEPT !.stat = BitAnd(@, 252) + ModeNum(m.ppu.mode)],
     irq |-> m.irq]

\* Ppu::update(cycles): returns the PPU and the Option<InterruptType>
ppu_update(p, cycles) ==
    IF ~lcd_enabled(p)
    THEN [ppu |-> [p EXCEPT !.ly = 0, !.mode = "HBlank", !.window_line = 0,
                            !.vram_accessible = TRUE, !.oam_accessible = TRUE],
          irq |-> None]
    ELSE update_stat_mode(update_mode(update_lyc(
             [p EXCEPT !.mode_cycles = @ + cycles])))

\* The PPU a panic inside render_scanline leaves behind, when Ppu::update(cycles)
\* renders a line and render_sprites panics: the mode change of ppu.rs:522-527
\* is made and the window is drawn (ppu.rs:676-678), the mode bits of STAT
\* (ppu.rs:609) are not yet written
update_panic_state(p, cycles) ==
    update_mode(update_lyc([p EXCEPT !.mode_cycles = @ + cycles])).ppu

\* The one-dot PPU step the bus calls four times per m-cycle
ppu_update_cycle(p) == ppu_update(p, 1)

(***************************************************************************)
(* Memory bus (memory.rs)                                                  *)
(***************************************************************************)
\* A ROM image: its length and its bytes (fill value 0)
Rom(len, data) == [len |-> len, data |-> data]

\* MemoryBus::new
MemoryBusNew(rom) ==
    [ wram |-> EmptyArr, hram |-> EmptyArr,
      io_registers |-> ArrPut(EmptyArr, 15, 225, 0),     \* IF = 0xE1
      ie_register |-> 0,
      rom |-> rom, eram |-> EmptyArr,
      timer |-> TimerNew, ppu |-> PpuNew,
      joypad_select |-> 207, joypad_buttons |-> 15, joypad_dpad |-> 15,
      last_joypad_state |-> 207,
      joypad_debounce_counter |-> 0, joypad_debounce_delay |-> 1,
      serial_data |-> 0, serial_control |-> 126,
      serial_transfer_active |-> FALSE,
      serial_bit_counter |-> 0, serial_clock_counter |-> 0,
      clock |-> 0,
      memory_access_in_progress |-> FALSE,
      memory_access_cycles_remaining |-> 0,
      memory_access_type |-> "None",
      memory_access_address |-> 0,
      memory_access_value |-> None ]

\* MemoryBus::update_timer_cycle with the caller's request_interrupt (tick)
timer_cycle(b) ==
    Then(update_cycle(b.timer), LAMBDA r :
        IF r.irq THEN request_interrupt([b EXCEPT !.timer = r.timer], Timer)
        ELSE [b EXCEPT !.timer = r.timer])

\* MemoryBus::update_ppu_cycle with the caller's request_interrupt (tick)
ppu_cycle(b) ==
    Then(ppu_update_cycle(b.ppu), LAMBDA r :
        IF r.irq # None THEN request_interrupt([b EXCEPT !.ppu = r.ppu], r.irq)
        ELSE [b EXCEPT !.ppu = r.ppu])

\* A shift that never ends the transfer
serial_shift_on(b) ==
    [bus |-> [b EXCEPT !.serial_clock_counter = 0,
                       !.serial_data = BitOr(Shl8(@, 1), 1),
                       !.serial_bit_counter = (@ + 1) % 256],
     irq |-> FALSE]

\* MemoryBus::update_serial_cycle, a bit shifted out (memory.rs:136-151)
serial_shift(b) ==
    IF b.serial_bit_counter + 1 = 8
    THEN [bus |-> [b EXCEPT !.serial_clock_counter = 0,
                            !.serial_data = BitOr(Shl8(@, 1), 1),
                            !.serial_transfer_active = FALSE,
                            !.serial_bit_counter = 0,
                            !.serial_control = @ % 128],
          irq |-> TRUE]
    ELSE [bus |-> [b EXCEPT !.serial_clock_counter = 0,
                            !.serial_data = BitOr(Shl8(@, 1), 1),
                            !.serial_bit_counter = @ + 1],
          irq |-> FALSE]

\* MemoryBus::update_serial_cycle: returns the bus and the interrupt request
update_serial_cycle(b) ==
    IF ~b.serial_transfer_active THEN [bus |-> b, irq |-> FALSE]
    ELSE IF b.serial_control % 2 = 0 THEN [bus |-> b, irq |-> FALSE]
    ELSE IF U16(b.serial_clock_counter + 1) # 512
    THEN [bus |-> [b EXCEPT !.serial_clock_counter = U16(@ + 1)], irq |-> FALSE]
    ELSE serial_shift(b)

\* update_serial_cycle with the caller's request_interrupt (tick)
serial_cycle(b) ==
    Then(update_serial_cycle(b), LAMBDA r :
        IF r.irq THEN request_interrupt(r.bus, Serial) ELSE r.bus)

\* MemoryBus::update_joypad_cycle (never requests an interrupt)
joypad_cycle(b) ==
    IF b.joypad_debounce_counter > 0
    THEN [b EXCEPT !.joypad_debounce_counter = @ - 1]
    ELSE b

\* MemoryBus::read_io
read_io(b, addr) ==
    CASE addr = 65280 ->
           IF Bit(b.joypad_select, 5) = 0
           THEN BitOr(BitOr(192, BitAnd(b.joypad_select, 48)), b.joypad_buttons)
           ELSE IF Bit(b.joypad_select, 4) = 0
           THEN BitOr(BitOr(192, BitAnd(b.joypad_select, 48)), b.joypad_dpad)
           ELSE 207
      [] addr = 65281 -> b.serial_data
      [] addr = 65282 -> b.serial_control
      [] addr = 65284 -> get_div(b.timer)
      [] addr = 65285 -> b.timer.tima
      [] addr = 65286 -> b.timer.tma
      [] addr = 65287 -> b.timer.tac
      [] addr = 65316 -> 119
      [] addr = 65317 -> 243
      [] addr = 65318 -> 241
      [] addr = 65295 -> get_if(b)
      [] addr \in 65344..65355 -> read_register(b.ppu, addr)
      [] OTHER -> ArrGet(b.io_registers, addr - 65280, 0)

\* The address decode shared by read_byte and process_dma_cycle
mem_read(b, addr) ==
    CASE addr \in 0..32767 ->
           IF addr >= b.rom.len THEN 255 ELSE ArrGet(b.rom.data, addr, 0)
      [] addr \in 32768..40959 -> read_vram(b.ppu, addr)
      [] addr \in 40960..49151 -> ArrGet(b.eram, addr - 40960, 0)
      [] addr \in 49152..57343 -> ArrGet(b.wram, addr - 49152, 0)
      [] addr \in 57344..65023 -> ArrGet(b.wram, addr - 57344, 0)
      [] addr \in 65024..65183 -> read_oam(b.ppu, addr)
      [] addr \in 65280..65407 -> read_io(b, addr)
      [] addr \in 65408..65534 -> ArrGet(b.hram, addr - 65408, 0)
      [] addr = 65535 -> get_ie(b)
      [] OTHER -> 255

\* MemoryBus::process_dma_cycle, the position update (memory.rs:238-248)
dma_advance(p) ==
    IF p.oam_dma_byte + 1 >= 160
    THEN [p EXCEPT !.oam_dma_active = FALSE, !.oam_dma_byte = 0]
    ELSE [p EXCEPT !.oam_dma_byte = @ + 1]

\* process_dma_cycle storing the fetched byte one position too far
process_dma_cycle_shifted(b) ==
    IF ~b.ppu.oam_dma_active THEN b
    ELSE [b EXCEPT !.ppu = dma_advance(write_oam_internal(b.ppu,
              b.ppu.oam_dma_byte + 1,
              mem_read(b, oam_dma_source(b.ppu) + b.ppu.oam_dma_byte)))]

\* MemoryBus::process_dma_cycle
process_dma_cycle(b) ==
    IF ~b.ppu.oam_dma_active THEN b
    ELSE [b EXCEPT !.ppu = dma_advance(write_oam_internal(b.ppu,
              b.ppu.oam_dma_byte,
              mem_read(b, oam_dma_source(b.ppu) + b.ppu.oam_dma_byte)))]

\* MemoryBus::begin_oam_dma
begin_oam_dma(b, value) ==
    [b EXCEPT !.ppu = ppu_begin_oam_dma(b.ppu, value),
              !.memory_access_in_progress = TRUE,
              !.memory_access_type = "DMA",
              !.memory_access_cycles_remaining = 160]

\* for _ in 0..4 { F }
Apply4(F(_), x) == Then(Then(Then(Then(x, F), F), F), F)

\* MemoryBus::tick, memory-access countdown (memory.rs:264-272)
tick_access(b) ==
    IF ~b.memory_access_in_progress THEN b
    ELSE IF U8(b.memory_access_cycles_remaining - 1) = 0
    THEN [b EXCEPT !.memory_access_cycles_remaining = 0,
                   !.memory_access_in_progress = FALSE,
                   !.memory_access_type = "None"]
    ELSE [b EXCEPT !.memory_access_cycles_remaining = U8(@ - 1)]

\* MemoryBus::tick, DMA byte (memory.rs:274-277)
tick_dma(b) == IF b.ppu.oam_dma_active THEN process_dma_cycle(b) ELSE b

\* MemoryBus::tick, the four t-cycles of each component (memory.rs:279-303)
tick_timer(b)  == Apply4(timer_cycle, b)
tick_ppu(b)    == Apply4(ppu_cycle, b)
tick_serial(b) == Apply4(serial_cycle, b)
tick_joypad(b) == Apply4(joypad_cycle, b)

\* Clock::tick(1)
tick_clock(b) == [b EXCEPT !.clock = @ + 1]

\* MemoryBus::tick: one m-cycle
tick(b) ==
    Then(Then(Then(Then(Then(Then(tick_access(b),
        tick_dma), tick_timer), tick_ppu), tick_serial), tick_joypad), tick_clock)

\* addr >= 0xFF80 && addr <= 0xFFFE
InHram(addr) == addr >= 65408 /\ addr <= 65534

\* MemoryBus::read_byte: returns the bus (access timing is state) and the byte
read_byte(b, addr) ==
    IF b.memory_access_type = "DMA" /\ ~InHram(addr)
    THEN [bus |-> b, val |-> 255]
    ELSE [bus |-> [b EXCEPT !.memory_access_in_progress = TRUE,
                            !.memory_access_type = "Read",
                            !.memory_access_address = addr,
                            !.memory_access_cycles_remaining = 1],
          val |-> mem_read(b, addr)]

\* MemoryBus::write_io, serial control (memory.rs:506-516)
write_serial_control(b, value) ==
    IF value >= 128
    THEN [b EXCEPT !.serial_control = BitAnd(value, 131),
                   !.serial_transfer_active = TRUE,
                   !.serial_bit_counter = 0,
                   !.serial_clock_counter = 0]
    ELSE [b EXCEPT !.serial_control = BitAnd(value, 131)]

\* MemoryBus::write_io
write_io(b, addr, value) ==
    CASE addr = 65280 ->
           [b EXCEPT !.joypad_select =
               BitOr(BitOr(192, BitAnd(value, 48)), BitAnd(b.joypad_select, 15))]
      [] addr = 65281 -> [b EXCEPT !.serial_data = value]
      [] addr = 65282 -> write_serial_control(b, value)
      [] addr = 65284 -> [b EXCEPT !.timer = set_div(@, value)]
      [] addr = 65285 -> [b EXCEPT !.timer = set_tima(@, value)]
      [] addr = 65286 -> [b EXCEPT !.timer = set_tma(@, value)]
      [] addr = 65287 -> [b EXCEPT !.timer = set_tac(@, value)]
      [] addr = 65295 -> set_if(b, value)
      [] addr = 65350 -> begin_oam_dma(b, value)
      [] addr \in 65344..65355 /\ addr # 65350 ->
           [b EXCEPT !.ppu = write_register(@, addr, value)]
      [] OTHER -> [b EXCEPT !.io_registers = ArrPut(@, addr - 65280, value, 0)]

\* A region match that drops writes to echo RAM
mem_write_noecho(b, addr, value) ==
    CASE addr \in 32768..40959 -> [b EXCEPT !.ppu = write_vram(@, addr, value)]
      [] addr \in 40960..49151 -> [b EXCEPT !.eram = ArrPut(@, addr - 40960, value, 0)]
      [] addr \in 49152..57343 -> [b EXCEPT !.wram = ArrPut(@, addr - 49152, value, 0)]
      [] addr \in 65024..65183 -> [b EXCEPT !.ppu = write_oam(@, addr, value)]
      [] addr \in 65280..65407 -> write_io(b, addr, value)
      [] addr \in 65408..65534 -> [b EXCEPT !.hram = ArrPut(@, addr - 65408, value, 0)]
      [] addr = 65535 -> set_ie(b, value)
      [] OTHER -> b

\* A region match that stores writes to ROM addresses in the image
mem_write_rom(b, addr, value) ==
    CASE addr \in 0..32767 -> [b EXCEPT !.rom.data = ArrPut(@, addr, value, 0)]
      [] addr \in 32768..40959 -> [b EXCEPT !.ppu = write_vram(@, addr, value)]
      [] addr \in 40960..49151 -> [b EXCEPT !.eram = ArrPut(@, addr - 40960, value, 0)]
      [] addr \in 49152..57343 -> [b EXCEPT !.wram = ArrPut(@, addr - 49152, value, 0)]
      [] addr \in 57344..65023 -> [b EXCEPT !.wram = ArrPut(@, addr - 57344, value, 0)]
      [] addr \in 65024..65183 -> [b EXCEPT !.ppu = write_oam(@, addr, value)]
      [] addr \in 65280..65407 -> write_io(b, addr, value)
      [] addr \in 65408..65534 -> [b EXCEPT !.hram = ArrPut(@, addr - 65408, value, 0)]
      [] addr = 65535 -> set_ie(b, value)
      [] OTHER -> b

\* MemoryBus::write_byte, the region match (memory.rs:416-449)
mem_write(b, addr, value) ==
    CASE addr \in 32768..40959 -> [b EXCEPT !.ppu = write_vram(@, addr, value)]
      [] addr \in 40960..49151 -> [b EXCEPT !.eram = ArrPut(@, addr - 40960, value, 0)]
      [] addr \in 49152..57343 -> [b EXCEPT !.wram = ArrPut(@, addr - 49152, value, 0)]
      [] addr \in 57344..65023 -> [b EXCEPT !.wram = ArrPut(@, addr - 57344, value, 0)]
      [] addr \in 65024..65183 -> [b EXCEPT !.ppu = write_oam(@, addr, value)]
      [] addr \in 65280..65407 -> write_io(b, addr, value)
      [] addr \in 65408..65534 -> [b EXCEPT !.hram = ArrPut(@, addr - 65408, value, 0)]
      [] addr = 65535 -> set_ie(b, value)
      [] OTHER -> b

\* MemoryBus::write_byte
write_byte(b, addr, value) ==
    IF b.memory_access_type = "DMA" /\ ~InHram(addr)
    THEN b
    ELSE mem_write([b EXCEPT !.memory_access_in_progress = TRUE,
                             !.memory_access_type = "Write",
                             !.memory_access_address = addr,
                             !.memory_access_value = value,
                             !.memory_access_cycles_remaining = 1],
                   addr, value)

\* MemoryBus::is_memory_access_in_progress
is_memory_access_in_progress(b) == b.memory_access_in_progress

(***************************************************************************)
(* CPU (cpu.rs).  A machine value m is [cpu |-> Cpu, bus |-> MemoryBus];   *)
(* operations that return a value add a field val or cycles.               *)
(***************************************************************************)
\* Cpu::new followed by Cpu::reset
CpuReset ==
    [ af |-> 432, bc |-> 19, de |-> 216, hl |-> 333,     \* 0x01B0 0x0013 0x00D8 0x014D
      f |-> [z |-> TRUE, n |-> FALSE, h |-> TRUE, c |-> TRUE],
      sp |-> 65534, pc |-> 256,
      halted |-> FALSE, ime |-> FALSE, pending_ime |-> FALSE, halt_bug |-> FALSE,
      cycle_count |-> 0 ]

\* CpuFlag
FlagC == 16
FlagH == 32
FlagN == 64
FlagZ == 128

\* Flags::to_byte
to_byte(f) ==
    (IF f.c THEN FlagC ELSE 0) + (IF f.h THEN FlagH ELSE 0)
  + (IF f.n THEN FlagN ELSE 0) + (IF f.z THEN FlagZ ELSE 0)

\* Flags::from_byte
from_byte(byte) ==
    [ c |-> BitAnd(byte, FlagC) # 0, h |-> BitAnd(byte, FlagH) # 0,
      n |-> BitAnd(byte, FlagN) # 0, z |-> BitAnd(byte, FlagZ) # 0 ]

\* Cpu::flag, the stores of the new F value (cpu.rs:166-170)
store_f(c, f_value) ==
    [c EXCEPT !.f = from_byte(f_value),
              !.af = BitOr(BitAnd(c.af, 65280), f_value)]

\* Cpu::flag
flag(c, mask, set) ==
    store_f(c, IF set THEN BitOr(to_byte(c.f), mask)
               ELSE BitAnd(to_byte(c.f), Not8(mask)))

\* A set_af that stores all sixteen bits
set_af_raw(c, value) == [c EXCEPT !.f = from_byte(value % 256), !.af = value]

\* Cpu::set_af
set_af(c, value) ==
    [c EXCEPT !.f = from_byte(BitAnd(value % 256, 240)),
              !.af = BitAnd(value, 65520)]

\* Cpu::set_bc, set_de, set_hl
set_bc(c, value) == [c EXCEPT !.bc = value]
set_de(c, value) == [c EXCEPT !.de = value]
set_hl(c, value) == [c EXCEPT !.hl = value]

\* Cpu::get_a / set_a
get_a(c) == c.af \div 256
set_a(c, value) == [c EXCEPT !.af = BitOr(BitAnd(c.af, 255), value * 256)]

\* Cpu::inc_r8: returns the cpu (flags) and the result
inc_r8(c, value) ==
    [cpu |-> flag(flag(flag(c, FlagZ, U8(value + 1) = 0),
                       FlagH, (value % 16) + 1 > 15),
                  FlagN, FALSE),
     val |-> U8(value + 1)]

\* Cpu::fetch_byte
fetch_byte(m) ==
    Then(read_byte(m.bus, m.cpu.pc), LAMBDA r :
        [cpu |-> [m.cpu EXCEPT !.pc = U16(@ + 1)], bus |-> r.bus, val |-> r.val])

\* Cpu::fetch_word
fetch_word(m) ==
    Then(fetch_byte(m), LAMBDA lo :
    Then(fetch_byte(lo), LAMBDA hi :
        [cpu |-> hi.cpu, bus |-> hi.bus, val |-> hi.val * 256 + lo.val]))

\* Cpu::push_word
push_word(m, value) ==
    Then(write_byte(m.bus, U16(m.cpu.sp - 1), value \div 256), LAMBDA b1 :
        [cpu |-> [m.cpu EXCEPT !.sp = U16(@ - 2)],
         bus |-> write_byte(b1, U16(m.cpu.sp - 2), value % 256)])

\* A pop that takes the high byte from the lower address
pop_word_swapped(m) ==
    Then(read_byte(m.bus, m.cpu.sp), LAMBDA lo :
    Then(read_byte(lo.bus, U16(m.cpu.sp + 1)), LAMBDA hi :
        [cpu |-> [m.cpu EXCEPT !.sp = U16(@ + 2)], bus |-> hi.bus,
         val |-> lo.val * 256 + hi.val]))

\* Cpu::pop_word
pop_word(m) ==
    Then(read_byte(m.bus, m.cpu.sp), LAMBDA lo :
    Then(read_byte(lo.bus, U16(m.cpu.sp + 1)), LAMBDA hi :
        [cpu |-> [m.cpu EXCEPT !.sp = U16(@ + 2)], bus |-> hi.bus,
         val |-> hi.val * 256 + lo.val]))

\* The opcodes of Cpu::execute_instruction that the model covers
OpLD_BC   == 1
OpLD_A16_SP == 8
OpLD_SP   == 49
OpSCF     == 55
OpCCF     == 63
OpPOP_BC  == 193
OpJP      == 195
OpCALL_NZ == 196
OpPUSH_BC == 197
OpCALL    == 205
OpPOP_DE  == 209
OpPUSH_DE == 213
OpPOP_HL  == 225
OpPUSH_HL == 229
OpPOP_AF  == 241
OpPUSH_AF == 245
OpNOP   == 0
OpINC_A == 60
OpLD_A  == 62
OpHALT  == 118
OpRETI  == 217
OpLDH_W == 224
OpLD_W  == 234
OpDI    == 243
OpLD_R  == 250
OpEI    == 251
PushOps == {OpPUSH_BC, OpPUSH_DE, OpPUSH_HL, OpPUSH_AF}
PopOps == {OpPOP_BC, OpPOP_DE, OpPOP_HL, OpPOP_AF}
Opcodes == {OpNOP, OpINC_A, OpLD_A, OpHALT, OpRETI, OpLDH_W, OpLD_W,
            OpDI, OpLD_R, OpEI, OpLD_BC, OpLD_SP, OpSCF, OpCCF,
            OpLD_A16_SP, OpJP, OpCALL_NZ, OpCALL}
           \cup PushOps \cup PopOps

\* Cpu::write_word where addr + 1 wraps (a build without overflow checks)
write_word(b, addr, value) ==
    Then(write_byte(b, addr, value % 256), LAMBDA b1 :
        write_byte(b1, U16(addr + 1), value \div 256))

\* Cpu::execute_instruction, opcode 0x08 (LD (a16),SP)
exec_ld_a16_sp(m) ==
    Then(fetch_word(m), LAMBDA r :
        [cpu |-> r.cpu, bus |-> write_word(r.bus, r.val, r.cpu.sp), cycles |-> 20])

\* Cpu::cpu_jp
cpu_jp(m, condition) ==
    IF condition
    THEN Then(fetch_word(m), LAMBDA r :
            [cpu |-> [r.cpu EXCEPT !.pc = r.val], bus |-> r.bus, cycles |-> 16])
    ELSE [cpu |-> [m.cpu EXCEPT !.pc = U16(@ + 2)], bus |-> m.bus, cycles |-> 12]

\* Cpu::call where pc + 2 wraps (a build without overflow checks)
call(m) ==
    Then(push_word(m, U16(m.cpu.pc + 2)), LAMBDA p :
    Then(fetch_word(p), LAMBDA r :
        [cpu |-> [r.cpu EXCEPT !.pc = r.val], bus |-> r.bus, cycles |-> 24]))

\* Cpu::call_cc
call_cc(m, condition) ==
    IF condition
    THEN call(m)
    ELSE [cpu |-> [m.cpu EXCEPT !.pc = U16(@ + 2)], bus |-> m.bus, cycles |-> 12]

\* Cpu::execute_instruction, opcode 0x01 (LD BC,d16)
exec_ld_bc_d16(m) ==
    Then(fetch_word(m), LAMBDA r :
        [cpu |-> set_bc(r.cpu, r.val), bus |-> r.bus, cycles |-> 12])

\* Cpu::execute_instruction, opcode 0x31 (LD SP,d16)
exec_ld_sp_d16(m) ==
    Then(fetch_word(m), LAMBDA r :
        [cpu |-> [r.cpu EXCEPT !.sp = r.val], bus |-> r.bus, cycles |-> 12])

\* Cpu::execute_instruction, opcode 0x37 (SCF)
exec_scf(m) ==
    [cpu |-> flag(flag(flag(m.cpu, FlagC, TRUE), FlagH, FALSE), FlagN, FALSE),
     bus |-> m.bus, cycles |-> 4]

\* Cpu::execute_instruction, opcode 0x3F (CCF)
exec_ccf(m) ==
    [cpu |-> flag(flag(flag(m.cpu, FlagC, ~m.cpu.f.c), FlagH, FALSE), FlagN, FALSE),
     bus |-> m.bus, cycles |-> 4]

\* Cpu::execute_instruction, opcodes 0xC5, 0xD5, 0xE5, 0xF5 (PUSH rr)
exec_push(m, value) ==
    Then(push_word(m, value), LAMBDA r :
        [cpu |-> r.cpu, bus |-> r.bus, cycles |-> 16])

\* Cpu::execute_instruction, opcode 0xC1 (POP BC)
exec_pop_bc(m) ==
    Then(pop_word(m), LAMBDA r :
        [cpu |-> set_bc(r.cpu, r.val), bus |-> r.bus, cycles |-> 12])

\* Cpu::execute_instruction, opcode 0xD1 (POP DE)
exec_pop_de(m) ==
    Then(pop_word(m), LAMBDA r :
        [cpu |-> set_de(r.cpu, r.val), bus |-> r.bus, cycles |-> 12])

\* Cpu::execute_instruction, opcode 0xE1 (POP HL)
exec_pop_hl(m) ==
    Then(pop_word(m), LAMBDA r :
        [cpu |-> set_hl(r.cpu, r.val), bus |-> r.bus, cycles |-> 12])

\* Cpu::execute_instruction, opcode 0xF1 (POP AF)
exec_pop_af(m) ==
    Then(pop_word(m), LAMBDA r :
        [cpu |-> set_af(r.cpu, r.val), bus |-> r.bus, cycles |-> 12])

\* Cpu::execute_instruction, opcode 0x3C (INC A)
exec_inc_a(m) ==
    Then(inc_r8(m.cpu, get_a(m.cpu)), LAMBDA r :
        [cpu |-> set_a(r.cpu, r.val), bus |-> m.bus, cycles |-> 4])

\* Cpu::execute_instruction, opcode 0x3E (LD A,d8)
exec_ld_a_d8(m) ==
    Then(fetch_byte(m), LAMBDA r :
        [cpu |-> set_a(r.cpu, r.val), bus |-> r.bus, cycles |-> 8])

\* HALT entering the halted state whatever IME and the pending interrupts are
exec_halt_always(m) ==
    [cpu |-> [m.cpu EXCEPT !.halted = TRUE], bus |-> m.bus, cycles |-> 4]

\* Cpu::execute_instruction, opcode 0x76 (HALT)
exec_halt(m) ==
    IF ~m.cpu.ime /\ has_pending_interrupts(m.bus)
    THEN [cpu |-> [m.cpu EXCEPT !.halt_bug = TRUE], bus |-> m.bus, cycles |-> 4]
    ELSE [cpu |-> [m.cpu EXCEPT !.halted = TRUE], bus |-> m.bus, cycles |-> 4]

\* A RETI that returns and leaves IME as it is
exec_reti_plain(m) ==
    Then(pop_word(m), LAMBDA r :
        [cpu |-> [r.cpu EXCEPT !.pc = r.val], bus |-> r.bus, cycles |-> 16])

\* Cpu::execute_instruction, opcode 0xD9 (RETI)
exec_reti(m) ==
    Then(pop_word(m), LAMBDA r :
        [cpu |-> [r.cpu EXCEPT !.pc = r.val, !.ime = TRUE], bus |-> r.bus,
         cycles |-> 16])

\* Cpu::execute_instruction, opcode 0xE0 (LDH (a8),A)
exec_ldh_a8_a(m) ==
    Then(fetch_byte(m), LAMBDA r :
        [cpu |-> r.cpu,
         bus |-> write_byte(r.bus, BitOr(65280, r.val), get_a(r.cpu)),
         cycles |-> 12])

\* Cpu::execute_instruction, opcode 0xEA (LD (a16),A)
exec_ld_a16_a(m) ==
    Then(fetch_word(m), LAMBDA r :
        [cpu |-> r.cpu, bus |-> write_byte(r.bus, r.val, get_a(r.cpu)),
         cycles |-> 16])

\* DI leaving IME as it is
exec_di_keeps_ime(m) == [cpu |-> m.cpu, bus |-> m.bus, cycles |-> 4]

\* Cpu::execute_instruction, opcode 0xF3 (DI)
exec_di(m) == [cpu |-> [m.cpu EXCEPT !.ime = FALSE], bus |-> m.bus, cycles |-> 4]

\* Cpu::execute_instruction, opcode 0xFA (LD A,(a16))
exec_ld_a_a16(m) ==
    Then(fetch_word(m), LAMBDA r :
    Then(read_byte(r.bus, r.val), LAMBDA v :
        [cpu |-> set_a(r.cpu, v.val), bus |-> v.bus, cycles |-> 16]))

\* Cpu::execute_instruction, opcode 0xFB (EI)
exec_ei(m) == [cpu |-> [m.cpu EXCEPT !.pending_ime = TRUE], bus |-> m.bus, cycles |-> 4]

\* Cpu::execute_instruction: returns the machine and the t-cycles taken
execute_instruction(m, opcode) ==
    CASE opcode = OpNOP   -> [cpu |-> m.cpu, bus |-> m.bus, cycles |-> 4]
      [] opcode = OpINC_A -> exec_inc_a(m)
      [] opcode = OpLD_A  -> exec_ld_a_d8(m)
      [] opcode = OpHALT  -> exec_halt(m)
      [] opcode = OpRETI  -> exec_reti(m)
      [] opcode = OpLDH_W -> exec_ldh_a8_a(m)
      [] opcode = OpLD_W  -> exec_ld_a16_a(m)
      [] opcode = OpDI    -> exec_di(m)
      [] opcode = OpLD_R  -> exec_ld_a_a16(m)
      [] opcode = OpEI    -> exec_ei(m)
      [] opcode = OpLD_BC -> exec_ld_bc_d16(m)
      [] opcode = OpLD_SP -> exec_ld_sp_d16(m)
      [] opcode = OpSCF   -> exec_scf(m)
      [] opcode = OpCCF   -> exec_ccf(m)
      [] opcode = OpPUSH_BC -> exec_push(m, m.cpu.bc)
      [] opcode = OpPUSH_DE -> exec_push(m, m.cpu.de)
      [] opcode = OpPUSH_HL -> exec_push(m, m.cpu.hl)
      [] opcode = OpPUSH_AF -> exec_push(m, m.cpu.af)
      [] opcode = OpPOP_BC -> exec_pop_bc(m)
      [] opcode = OpPOP_DE -> exec_pop_de(m)
      [] opcode = OpPOP_HL -> exec_pop_hl(m)
      [] opcode = OpPOP_AF -> exec_pop_af(m)
      [] opcode = OpLD_A16_SP -> exec_ld_a16_sp(m)
      [] opcode = OpJP      -> cpu_jp(m, TRUE)
      [] opcode = OpCALL_NZ -> call_cc(m, ~m.cpu.f.z)
      [] opcode = OpCALL    -> call(m)

\* The opcode byte Cpu::step is about to fetch (MemoryBus::read_byte at pc)
next_opcode(m) == read_byte(m.bus, m.cpu.pc).val

\* Cpu::step waking a halted CPU only when IME is set as well
stays_halted_unless_ime(m) ==
    m.cpu.halted /\ ~(has_pending_interrupts(m.bus) /\ m.cpu.ime)

\* Cpu::step, the halted check (cpu.rs:281-288): TRUE when step returns early
stays_halted(m) == m.cpu.halted /\ ~has_pending_interrupts(m.bus)

\* Cpu::step, the HALT bug (cpu.rs:292-297): PC after the opcode fetch
halt_bug_fetch(c) ==
    IF c.halt_bug THEN [c EXCEPT !.pc = U16(@ - 1), !.halt_bug = FALSE] ELSE c

\* Cpu::step, EI's delayed effect (cpu.rs:304-308)
apply_pending_ime(c) ==
    IF c.pending_ime THEN [c EXCEPT !.ime = TRUE, !.pending_ime = FALSE] ELSE c

\* Cpu::step: returns the machine and the t-cycles taken
cpu_step(m) ==
    IF stays_halted(m) THEN [cpu |-> m.cpu, bus |-> m.bus, cycles |-> 4]
    ELSE
      Then(fetch_byte([cpu |-> [m.cpu EXCEPT !.halted = FALSE], bus |-> m.bus]),
           LAMBDA f :
      Then(execute_instruction([cpu |-> halt_bug_fetch(f.cpu), bus |-> f.bus], f.val),
           LAMBDA x :
        [cpu |-> [apply_pending_ime(x.cpu) EXCEPT !.cycle_count = @ + x.cycles],
         bus |-> x.bus, cycles |-> x.cycles]))

\* handle_interrupts leaving the serviced source's IF bit set
service_keeps_if(m, interrupt) ==
    Then(push_word([cpu |-> [m.cpu EXCEPT !.ime = FALSE], bus |-> m.bus], m.cpu.pc),
         LAMBDA m2 :
        [cpu |-> [m2.cpu EXCEPT !.pc = get_interrupt_vector(interrupt)],
         bus |-> m2.bus, cycles |-> 20])

\* Cpu::handle_interrupts, the service of a source (cpu.rs:321-337)
service(m, interrupt) ==
    Then(push_word([cpu |-> [m.cpu EXCEPT !.ime = FALSE],
                    bus |-> clear_interrupt(m.bus, interrupt)], m.cpu.pc),
         LAMBDA m2 :
        [cpu |-> [m2.cpu EXCEPT !.pc = get_interrupt_vector(interrupt)],
         bus |-> m2.bus, cycles |-> 20])

\* Cpu::handle_interrupts: returns the machine and the t-cycles taken (0 or 20)
handle_interrupts(m) ==
    IF ~m.cpu.ime \/ get_highest_priority_interrupt(m.bus) = None
    THEN [cpu |-> m.cpu, bus |-> m.bus, cycles |-> 0]
    ELSE service(m, get_highest_priority_interrupt(m.bus))

\* A conversion that takes t-cycles for m-cycles
t_to_m_cycles_same(t_cycles) == t_cycles

\* Clock::t_to_m_cycles
t_to_m_cycles(t_cycles) == t_cycles \div 4

\* Cpu::tick as Emulator::step calls it: one Cpu::step, its cost in m-cycles
cpu_tick(m) ==
    Then(cpu_step(m), LAMBDA r :
        [cpu |-> r.cpu, bus |-> r.bus, m_cycles |-> t_to_m_cycles(r.cycles)])

(***************************************************************************)
(* Emulator (emulator.rs)                                                  *)
(***************************************************************************)
\* for _ in 0..n { self.bus.tick(); }
RECURSIVE TickN(_, _)
TickN(b, n) == IF n = 0 THEN b ELSE Then(tick(b), LAMBDA b2 : TickN(b2, n - 1))

\* The emulator's two fields
Machine == [cpu |-> cpu, bus |-> bus]

(***************************************************************************)
(* Cartridges.  A cartridge is a 32 KiB ROM: the program at the entry      *)
(* point 0x0100, one handler opcode at each interrupt vector, zero (NOP)   *)
(* everywhere else.                                                        *)
(***************************************************************************)
\* m-cycles an interrupt programme is followed for
MaxClock == 60
\* m-cycles an OAM DMA programme is followed for
MaxDmaClock == 182
\* m-cycles a stack programme is followed for
MaxStackClock == 26
\* NOPs inserted before a programme's last part
MaxPad == 1

RomLen == 32768
EntryPoint == 256
Vectors == { get_interrupt_vector(i) : i \in InterruptType }

RECURSIVE PutSeq(_, _, _)
PutSeq(data, at, s) ==
    IF s = <<>> THEN data
    ELSE PutSeq(ArrPut(data, at, Head(s), 0), at + 1, Tail(s))

RomImage(prog, handler) ==
    Rom(RomLen, PutSeq([a \in Vectors |-> handler], EntryPoint, prog))

\* LD A,v ; LDH (a8),A
SetIo(a8, v) == <<OpLD_A, v, OpLDH_W, a8>>
\* IF := y ; IE := x
SetupInterrupts(x, y) == SetIo(15, y) \o SetIo(255, x)
\* TIMA := t ; TAC := 5 (enabled, one increment per 4 m-cycles)
SetupTimer(t) == IF t = None THEN <<>> ELSE SetIo(5, t) \o SetIo(7, 5)
Pad(k) == [i \in 1..k |-> OpNOP]

\* <<IE, IF>> written by the interrupt programmes
IrqPairs ==
    { <<0, 0>>, <<4, 0>>, <<4, 4>>, <<31, 0>>, <<31, 31>>, <<31, 30>>,
      <<31, 24>>, <<16, 16>>, <<4, 27>>, <<1, 1>>, <<255, 8>> }
\* TIMA start values (None: timer left off)
TimaStarts == {None, 254, 252}
\* The last part of an interrupt programme
Tails ==
    { <<OpEI, OpNOP, OpINC_A>>,
      <<OpEI, OpDI, OpINC_A>>,
      <<OpEI, OpHALT, OpINC_A>>,
      <<OpHALT, OpINC_A, OpEI>>,
      <<OpLD_A, 1, OpHALT, OpINC_A>>,
      <<OpDI, OpHALT, OpINC_A, OpEI, OpNOP, OpDI>> }
Handlers == {OpNOP, OpRETI}

InterruptRoms ==
    { RomImage(SetupInterrupts(p[1], p[2]) \o SetupTimer(t) \o Pad(k) \o tail, h) :
        p \in IrqPairs, t \in TimaStarts, k \in 0..MaxPad, tail \in Tails,
        h \in Handlers }

\* Bytes the DMA programmes store in WRAM, and the DMA source pages
DmaBytes == {7, 66}
DmaPages == {1, 192, 224}
\* WRAM[0] := w ; WRAM[0x9F] := w2 ; DMA := page ; A := (0xC000) ; A := (0xC09F)
DmaProgram(w, w2, page) ==
    <<OpLD_A, w, OpLD_W, 0, 192, OpLD_A, w2, OpLD_W, 159, 192>>
    \o SetIo(70, page) \o <<OpLD_R, 0, 192, OpLD_R, 159, 192>>
DmaRoms ==
    { RomImage(DmaProgram(w, w2, page), OpNOP) :
        w \in DmaBytes, w2 \in DmaBytes, page \in DmaPages }

\* Stack pointers: the reset value, work RAM, echo RAM, HRAM's first bytes,
\* and the two values whose pushes wrap around 0
StackPointers == {65534, 53248, 49154, 61440, 65410, 0, 1}
\* Values pushed: every nibble pattern at both ends, and unequal bytes
StackValues == {0, 255, 4660, 43983, 65535, 32769}
\* <<PUSH rr, POP rr>>
StackPairs ==
    { <<OpPUSH_BC, OpPOP_BC>>, <<OpPUSH_DE, OpPOP_DE>>,
      <<OpPUSH_HL, OpPOP_HL>>, <<OpPUSH_AF, OpPOP_AF>> }
\* The flag operations that end a stack programme
StackTails == { <<OpNOP>>, <<OpSCF>>, <<OpCCF, OpCCF>>, <<OpINC_A, OpPUSH_AF>> }
\* SP := sp ; BC := v ; PUSH BC ; POP rr ; PUSH rr ; POP rr ; tail
StackProgram(sp, v, pair, tail) ==
    <<OpLD_SP, sp % 256, sp \div 256, OpLD_BC, v % 256, v \div 256,
      OpPUSH_BC, pair[2], pair[1], pair[2]>> \o tail
StackRoms ==
    { RomImage(StackProgram(sp, v, pair, tail), OpNOP) :
        sp \in StackPointers, v \in StackValues, pair \in StackPairs,
        tail \in StackTails }

\* m-cycles a wrap-around programme is followed for
MaxWrapClock == 34
\* Stack pointers stored by LD (a16),SP and the addresses they are stored at
WrapPointers == {65534, 4660, 53503}
WrapAddrs == {65535, 65534, 49152, 57343, 65408}
\* Call targets, and the two call opcodes
WrapTargets == {336, 49152}
CallOps == {OpCALL, OpCALL_NZ}
\* SP := sp ; LD (a16),SP ; INC A
StoreSpProgram(sp, a16) ==
    <<OpLD_SP, sp % 256, sp \div 256, OpLD_A16_SP, a16 % 256, a16 \div 256, OpINC_A>>
\* INC A k times ; CALL target in ROM
RomCallProgram(k, op, target) ==
    [i \in 1..k |-> OpINC_A] \o <<op, target % 256, target \div 256, OpINC_A>>
\* INC A k times ; HRAM[0x7D] := op ; HRAM[0x7E] := target's low byte ;
\* IE := target's high byte ; JP 0xFFFD
HighCallProgram(k, op, target) ==
    [i \in 1..k |-> OpINC_A] \o <<OpLD_A, op, OpLDH_W, 253>>
    \o <<OpLD_A, target % 256, OpLDH_W, 254>>
    \o <<OpLD_A, target \div 256, OpLDH_W, 255, OpJP, 253, 255>>
WrapRoms ==
    { RomImage(StoreSpProgram(sp, a16), OpNOP) : sp \in WrapPointers, a16 \in WrapAddrs }
    \cup { RomImage(RomCallProgram(k, op, t), OpNOP) :
              k \in 0..1, op \in CallOps, t \in WrapTargets }
    \cup { RomImage(HighCallProgram(k, op, t), OpNOP) :
              k \in 0..1, op \in CallOps, t \in WrapTargets }

(***************************************************************************)
(* The record ev describes the step just taken (kind, opcode, irq, the     *)
(* CPU's pc, ime, halted, halt_bug before it, and twice: the step executes *)
(* a byte that the step before fetched without advancing PC) and keeps     *)
(* what the properties need from the past: the address after the last HALT *)
(* and IME at that HALT, the clock and page of the last write to 0xFF46,   *)
(* and di_clean: DI was executed and neither EI nor RETI since; and, when  *)
(* the last instruction was a PUSH, its opcode, SP before it and the       *)
(* pushed register pair.                                                   *)
(***************************************************************************)
NoEv ==
    [ kind |-> "init", opcode |-> None, irq |-> None, addr |-> None, val |-> None,
      pc |-> None, ime |-> FALSE, halted |-> FALSE, halt_bug |-> FALSE,
      twice |-> FALSE, halt_ret |-> None, halt_ime |-> FALSE,
      dma_at |-> None, dma_page |-> None, di_clean |-> FALSE,
      limit |-> 0, ops |-> 0,
      t |-> 0, setup |-> 0, mid_at |-> None, inc_at |-> None,
      tima |-> None, ovf_at |-> None, ovf_by |-> "none", wrote |-> None,
      irqs |-> 0, div_at |-> None,
      cfg |-> [sprites |-> FALSE, restart |-> FALSE, stat |-> 0, lyc |-> 0],
      ly_at |-> 0, mode_at |-> 0, vblank_at |-> None, rose |-> FALSE,
      frame_stat |-> 0, frame_vb |-> 0, stat_w |-> None,
      push_op |-> None, push_sp |-> None, push_val |-> None,
      scene |-> <<>>, line |-> <<>>, wline |-> 0, cycles_this_frame |-> 0,
      mark |-> {}, mark_at |-> 0 ]

\* ev after a step of the given kind
Ev(kind, opcode, irq) ==
    [ev EXCEPT !.kind = kind, !.opcode = opcode, !.irq = irq,
               !.pc = cpu.pc, !.ime = cpu.ime, !.halted = cpu.halted,
               !.halt_bug = cpu.halt_bug,
               !.twice = (kind = "instr" /\ ev.kind = "instr" /\ ev.halt_bug)]

\* The operand byte that follows the opcode at pc
operand(m) == mem_read(m.bus, U16(m.cpu.pc + 1))

\* The register pair a PUSH or POP opcode names
PairOf(c, opcode) ==
    CASE opcode \in {OpPUSH_BC, OpPOP_BC} -> c.bc
      [] opcode \in {OpPUSH_DE, OpPOP_DE} -> c.de
      [] opcode \in {OpPUSH_HL, OpPOP_HL} -> c.hl
      [] opcode \in {OpPUSH_AF, OpPOP_AF} -> c.af

\* ev after the instruction with the given opcode
EvInstr(opcode) ==
    [Ev("instr", opcode, None) EXCEPT
        !.push_op = IF opcode \in PushOps THEN opcode ELSE None,
        !.push_sp = IF opcode \in PushOps THEN cpu.sp ELSE None,
        !.push_val = IF opcode \in PushOps THEN PairOf(cpu, opcode) ELSE None,
        !.halt_ret = IF opcode = OpHALT THEN U16(cpu.pc + 1) ELSE @,
        !.halt_ime = IF opcode = OpHALT THEN cpu.ime ELSE @,
        !.dma_at = IF opcode = OpLDH_W /\ operand(Machine) = 70 THEN bus.clock ELSE @,
        !.dma_page = IF opcode = OpLDH_W /\ operand(Machine) = 70 THEN get_a(cpu) ELSE @,
        !.di_clean = IF opcode = OpDI THEN TRUE
                     ELSE IF opcode \in {OpEI, OpRETI} THEN FALSE ELSE @]

\* Emulator::new
Init ==
    /\ cpu = CpuReset
    /\ \/ \E rom \in InterruptRoms :
            bus = MemoryBusNew(rom) /\ ev = [NoEv EXCEPT !.limit = MaxClock]
       \/ \E rom \in DmaRoms :
            bus = MemoryBusNew(rom) /\ ev = [NoEv EXCEPT !.limit = MaxDmaClock]
       \/ \E rom \in StackRoms :
            bus = MemoryBusNew(rom) /\ ev = [NoEv EXCEPT !.limit = MaxStackClock]
       \/ \E rom \in WrapRoms :
            bus = MemoryBusNew(rom) /\ ev = [NoEv EXCEPT !.limit = MaxWrapClock]

\* Emulator::step, a memory access is in progress (emulator.rs:22-25)
StepMemoryAccess ==
    /\ bus.clock < ev.limit
    /\ is_memory_access_in_progress(bus)
    /\ bus' = tick(bus)
    /\ cpu' = cpu
    /\ ev' = Ev("stall", None, None)

\* Emulator::step, an interrupt is serviced (emulator.rs:28-34)
StepInterrupt ==
    /\ bus.clock < ev.limit
    /\ ~is_memory_access_in_progress(bus)
    /\ handle_interrupts(Machine).cycles # 0
    /\ \E r \in {handle_interrupts(Machine)} :
          /\ cpu' = r.cpu
          /\ bus' = TickN(r.bus, 5)
    /\ ev' = Ev("service", None, get_highest_priority_interrupt(bus))

\* Emulator::step, the CPU is halted and stays so (emulator.rs:37-44)
StepHalted ==
    /\ bus.clock < ev.limit
    /\ ~is_memory_access_in_progress(bus)
    /\ handle_interrupts(Machine).cycles = 0
    /\ stays_halted(Machine)
    /\ \E r \in {cpu_tick(Machine)} :
          /\ cpu' = r.cpu
          /\ bus' = TickN(r.bus, r.m_cycles)
    /\ ev' = Ev("idle", None, None)

\* Emulator::step, an instruction is executed (emulator.rs:37-44)
StepInstruction ==
    /\ bus.clock < ev.limit
    /\ ~is_memory_access_in_progress(bus)
    /\ handle_interrupts(Machine).cycles = 0
    /\ ~stays_halted(Machine)
    /\ next_opcode(Machine) \in Opcodes
    /\ \E r \in {cpu_tick(Machine)} :
          /\ cpu' = r.cpu
          /\ bus' = TickN(r.bus, r.m_cycles)
    /\ ev' = EvInstr(next_opcode(Machine))

\* The unchecked u16 additions of cpu.rs (addr + 1 in write_word, pc + 2 in
\* call and call_cc): TRUE when the instruction at pc evaluates one whose sum
\* is above 0xFFFF, where a build with overflow checks panics
add_overflows(m) ==
    Then(fetch_byte(m), LAMBDA f :
        \/ /\ f.val = OpLD_A16_SP
           /\ fetch_word([cpu |-> halt_bug_fetch(f.cpu), bus |-> f.bus]).val + 1 > 65535
        \/ f.val = OpCALL /\ halt_bug_fetch(f.cpu).pc + 2 > 65535
        \/ f.val = OpCALL_NZ /\ ~f.cpu.f.z /\ halt_bug_fetch(f.cpu).pc + 2 > 65535)

\* The machine as the panic leaves it: Cpu::call and Cpu::call_cc add before
\* they push, Cpu::write_word adds after its first write_byte
panic_state(m) ==
    Then(fetch_byte([cpu |-> [m.cpu EXCEPT !.halted = FALSE], bus |-> m.bus]),
         LAMBDA f :
        IF f.val = OpLD_A16_SP
        THEN Then(fetch_word([cpu |-> halt_bug_fetch(f.cpu), bus |-> f.bus]),
                  LAMBDA r :
                [cpu |-> r.cpu, bus |-> write_byte(r.bus, r.val, r.cpu.sp % 256)])
        ELSE [cpu |-> halt_bug_fetch(f.cpu), bus |-> f.bus])

\* Emulator::step in a build with overflow checks (the dev profile), when the
\* instruction evaluates an overflowing addition: the thread panics inside
\* Cpu::step, and no step follows
StepPanic ==
    /\ bus.clock < ev.limit
    /\ ~is_memory_access_in_progress(bus)
    /\ handle_interrupts(Machine).cycles = 0
    /\ ~stays_halted(Machine)
    /\ add_overflows(Machine)
    /\ \E r \in {panic_state(Machine)} :
          /\ cpu' = r.cpu
          /\ bus' = r.bus
    /\ ev' = [Ev("panic", next_opcode(Machine), None) EXCEPT !.limit = bus.clock]

Next ==
    StepMemoryAccess \/ StepInterrupt \/ StepHalted \/ StepInstruction \/ StepPanic

Spec == Init /\ [][Next]_vars

(***************************************************************************)
(* PrioSpec: the interrupt registers driven through set_ie and set_if, and *)
(* the priority functions applied to them.                                 *)
(***************************************************************************)
\* The bus of a cartridge with an empty programme
FreshBus == MemoryBusNew(RomImage(<<>>, OpNOP))

\* Register values: every 5-bit value, and values with bits 5-7 set
PrioVals == (0..31) \cup {32, 64, 128, 224, 255}

BusInit == cpu = CpuReset /\ bus = FreshBus /\ ev = NoEv

\* MemoryBus::set_ie(v)
PrioSetIe ==
    \E v \in PrioVals :
        /\ bus' = set_ie(bus, v)
        /\ ev' = [NoEv EXCEPT !.kind = "set_ie"]
        /\ UNCHANGED cpu

\* MemoryBus::set_if(v)
PrioSetIf ==
    \E v \in PrioVals :
        /\ bus' = set_if(bus, v)
        /\ ev' = [NoEv EXCEPT !.kind = "set_if"]
        /\ UNCHANGED cpu

\* get_highest_priority_interrupt, has_pending_interrupts and
\* get_interrupt_vector applied to the bus
Prioritise ==
    /\ ev' = [NoEv EXCEPT
                !.kind = "priority",
                !.irq = get_highest_priority_interrupt(bus),
                !.val = IF has_pending_interrupts(bus) THEN 1 ELSE 0,
                !.addr = IF get_highest_priority_interrupt(bus) = None THEN None
                         ELSE get_interrupt_vector(get_highest_priority_interrupt(bus))]
    /\ UNCHANGED <<cpu, bus>>

PrioNext == PrioSetIe \/ PrioSetIf \/ Prioritise

PrioSpec == BusInit /\ [][PrioNext]_vars

(***************************************************************************)
(* IrqSpec: CPU reads and writes of IF (0xFF0F) and IE (0xFFFF), interrupt *)
(* requests and clears.                                                    *)
(***************************************************************************)
AddrIF == 65295
AddrIE == 65535
IrqVals == {0, 1, 5, 21, 31, 32, 170, 255}

\* MemoryBus::write_byte(0xFF0F or 0xFFFF, v)
IrqWrite ==
    \E addr \in {AddrIF, AddrIE}, v \in IrqVals :
        /\ bus' = write_byte(bus, addr, v)
        /\ ev' = [NoEv EXCEPT !.kind = "write", !.addr = addr, !.val = v]
        /\ UNCHANGED cpu

\* MemoryBus::read_byte(0xFF0F or 0xFFFF)
IrqRead ==
    \E addr \in {AddrIF, AddrIE} :
        \E r \in {read_byte(bus, addr)} :
            /\ bus' = r.bus
            /\ ev' = [NoEv EXCEPT !.kind = "read", !.addr = addr, !.val = r.val]
            /\ UNCHANGED cpu

\* MemoryBus::request_interrupt(i)
IrqRequest ==
    \E i \in InterruptType :
        /\ bus' = request_interrupt(bus, i)
        /\ ev' = [NoEv EXCEPT !.kind = "request", !.irq = i]
        /\ UNCHANGED cpu

\* MemoryBus::clear_interrupt(i)
IrqClear ==
    \E i \in InterruptType :
        /\ bus' = clear_interrupt(bus, i)
        /\ ev' = [NoEv EXCEPT !.kind = "clear", !.irq = i]
        /\ UNCHANGED cpu

IrqNext == IrqWrite \/ IrqRead \/ IrqRequest \/ IrqClear

IrqSpec == BusInit /\ [][IrqNext]_vars

(***************************************************************************)
(* DmaSpec: the bus driven directly by reads, writes and ticks around an   *)
(* OAM DMA transfer.                                                       *)
(***************************************************************************)
\* Bus operations a run of DmaSpec performs
MaxOps == 4

AddrDMA == 65350
\* WRAM, HRAM, the DMA register, IE
DmaAddrs == {49152, 65408, AddrDMA, AddrIE}
DmaVals == {192, 66}

\* The clock of the first write to 0xFF46
DmaStart(addr) == IF addr = AddrDMA /\ ev.dma_at = None THEN bus.clock ELSE ev.dma_at

\* MemoryBus::write_byte(addr, v)
DmaWrite ==
    /\ ev.ops < MaxOps
    /\ \E addr \in DmaAddrs, v \in DmaVals :
        /\ bus' = write_byte(bus, addr, v)
        /\ ev' = [ev EXCEPT !.kind = "write", !.addr = addr, !.val = v,
                            !.dma_at = DmaStart(addr), !.ops = @ + 1]
        /\ UNCHANGED cpu

\* MemoryBus::read_byte(addr)
DmaRead ==
    /\ ev.ops < MaxOps
    /\ \E addr \in DmaAddrs :
        \E r \in {read_byte(bus, addr)} :
            /\ bus' = r.bus
            /\ ev' = [ev EXCEPT !.kind = "read", !.addr = addr, !.val = r.val,
                                !.ops = @ + 1]
            /\ UNCHANGED cpu

\* MemoryBus::tick
DmaTick ==
    /\ ev.ops < MaxOps
    /\ bus' = tick(bus)
    /\ ev' = [ev EXCEPT !.kind = "tick", !.addr = None, !.val = None, !.ops = @ + 1]
    /\ UNCHANGED cpu

DmaNext == DmaWrite \/ DmaRead \/ DmaTick

DmaSpec == BusInit /\ [][DmaNext]_vars

(***************************************************************************)
(* Properties                                                              *)
(***************************************************************************)
\* Source i is enabled in IE and requested in IF
PendingAt(b, i) == Bit(get_ie(b), i) = 1 /\ Bit(get_if(b), i) = 1
AnyPending(b) == \E i \in 0..4 : PendingAt(b, i)
\* The pending source with the lowest bit index
LowestPending(b) ==
    IF AnyPending(b)
    THEN CHOOSE i \in 0..4 : PendingAt(b, i) /\ \A j \in 0..(i - 1) : ~PendingAt(b, j)
    ELSE None
\* Emulator::step reaches its interrupt check
AtInterruptCheck == bus.clock < ev.limit /\ ~is_memory_access_in_progress(bus)

\* C1, the step taken at the interrupt check
C1Step ==
    /\ (AtInterruptCheck /\ cpu.ime /\ AnyPending(bus)) =>
          LET i == LowestPending(bus)
              h == handle_interrupts(Machine)
          IN  /\ ev'.kind = "service" /\ ev'.irq = i
              /\ ~h.cpu.ime /\ ~cpu'.ime
              /\ \A j \in 0..7 :
                    Bit(get_if(h.bus), j) = IF j = i THEN 0 ELSE Bit(get_if(bus), j)
              /\ get_ie(h.bus) = get_ie(bus) /\ get_ie(bus') = get_ie(bus)
              /\ \A j \in (0..7) \ {i} : Bit(get_if(bus), j) = 1 => Bit(get_if(bus'), j) = 1
              /\ cpu'.sp = U16(cpu.sp - 2)
              /\ mem_read(bus', U16(cpu.sp - 1)) = cpu.pc \div 256
              /\ mem_read(bus', U16(cpu.sp - 2)) = cpu.pc % 256
              /\ cpu'.pc = 64 + 8 * i
              /\ h.cycles = 20
              /\ bus'.clock = bus.clock + 5
    /\ (AtInterruptCheck /\ ~cpu.ime) =>
          /\ handle_interrupts(Machine) = [cpu |-> cpu, bus |-> bus, cycles |-> 0]
          /\ ev'.kind # "service"

\* C1: with IME set and an enabled interrupt pending, the step at the
\* interrupt check services the pending source with the lowest bit index:
\* IME is cleared, only that source's IF bit is cleared and IE is unchanged,
\* PC is pushed (SP - 2, high byte at the higher address), PC becomes
\* 0x40 + 8 * index and 5 m-cycles are fed to the bus.  With IME clear the
\* interrupt check changes nothing and no interrupt is serviced.
C1_InterruptService == [][C1Step]_vars

\* C1 witness: LCD STAT was serviced while the timer request stays pending
C1_Witness ==
    /\ ev.kind = "service" /\ ev.irq = LcdStat /\ ev.ime
    /\ cpu.pc = 72 /\ ~cpu.ime /\ cpu.sp = 65532
    /\ Bit(get_if(bus), LcdStat) = 0 /\ Bit(get_if(bus), Timer) = 1

\* C2, as the specification states it: when EI executes with IME false, IME is still false
\* when EI has completed, so no interrupt is serviced between EI and the
\* instruction after it.
C2_EiDelay ==
    [][(ev'.kind = "instr" /\ ev'.opcode = OpEI /\ ~cpu.ime)
          => (~cpu'.ime /\ cpu'.pending_ime)]_vars

\* C3, as the specification states it: when an interrupt is serviced for a CPU that halted with
\* IME set, the return address is the address after HALT and the CPU is no
\* longer halted after the service.
C3_HaltService ==
    (ev.kind = "service" /\ ev.halted)
        => /\ cpu.pc = get_interrupt_vector(ev.irq)
           /\ mem_read(bus, U16(cpu.sp + 1)) * 256 + mem_read(bus, cpu.sp) = ev.halt_ret
           /\ ~cpu.halted

\* C4, the steps of a CPU that executes HALT, or is halted, with IME clear
C4Step ==
    /\ (ev'.kind = "instr" /\ ev'.opcode = OpHALT /\ ~cpu.ime /\ ~cpu.halt_bug
            /\ ~AnyPending(bus))
          => (cpu'.halted /\ ~cpu'.halt_bug /\ cpu'.pc = U16(cpu.pc + 1))
    /\ (AtInterruptCheck /\ cpu.halted /\ ~ev.halt_ime) =>
          /\ ~cpu.ime /\ cpu.pc = ev.halt_ret
          /\ stays_halted([cpu |-> [cpu EXCEPT !.ime = TRUE], bus |-> bus])
                = stays_halted(Machine)
          /\ IF ~AnyPending(bus)
             THEN ev'.kind = "idle" /\ cpu' = cpu /\ bus'.clock = bus.clock + 1
             ELSE /\ ev'.kind = "instr"
                  /\ ev'.opcode = mem_read(bus, ev.halt_ret)
                  /\ ev'.opcode = OpINC_A
                  /\ ~cpu'.halted /\ ~cpu'.ime
                  /\ cpu'.sp = cpu.sp /\ cpu'.pc = U16(ev.halt_ret + 1)
                  /\ \A j \in 0..4 : PendingAt(bus, j) => Bit(get_if(bus'), j) = 1

\* C4: HALT executed with IME clear and nothing pending halts the CPU; it
\* stays halted exactly while no enabled interrupt is pending, and when one
\* is pending it wakes without servicing it (SP, IF bit and IME as they
\* were) and executes the instruction after HALT; the wake-up test gives
\* the same answer whatever IME is.
C4_HaltNoIme == [][C4Step]_vars

\* C4 witness: a CPU halted with IME clear woke and executed the INC A after
\* HALT while the timer request is still set
C4_Witness ==
    /\ ev.kind = "instr" /\ ev.halted /\ ~ev.halt_ime /\ ev.opcode = OpINC_A
    /\ ev.pc = ev.halt_ret /\ ~cpu.halted /\ ~cpu.ime /\ cpu.sp = 65534
    /\ Bit(get_if(bus), Timer) = 1

\* C5, the steps around a HALT executed with IME clear and an interrupt pending
C5Step ==
    /\ (ev'.kind = "instr" /\ ev'.opcode = OpHALT /\ ~cpu.ime /\ ~cpu.halt_bug
            /\ AnyPending(bus))
          => (~cpu'.halted /\ cpu'.halt_bug /\ cpu'.pc = U16(cpu.pc + 1))
    /\ (AtInterruptCheck /\ cpu.halt_bug) =>
          /\ ev'.kind = "instr" /\ ev'.opcode = OpINC_A
          /\ cpu'.pc = cpu.pc /\ ~cpu'.halt_bug
          /\ get_a(cpu') = U8(get_a(cpu) + 1)
    /\ (AtInterruptCheck /\ ev.kind = "instr" /\ ev.halt_bug) =>
          /\ ev'.kind = "instr" /\ ev'.twice
          /\ ev'.opcode = ev.opcode /\ ev'.pc = ev.pc
          /\ cpu'.pc = U16(ev.pc + 1) /\ ~cpu'.halt_bug
          /\ get_a(cpu') = U8(get_a(cpu) + 1)
          /\ cpu'.f.z = (get_a(cpu') = 0)
          /\ (get_a(cpu) = 2 => get_a(cpu') = 3 /\ ~cpu'.f.z)
    /\ (AtInterruptCheck /\ ev.twice /\ ev'.kind = "instr") => ~ev'.twice /\ ev'.pc = U16(ev.pc + 1)

\* C5: HALT executed with IME clear while an enabled interrupt is pending
\* does not halt and sets halt_bug; the next fetch leaves PC where it was,
\* once, and clears halt_bug, so the byte after HALT is executed twice
\* (INC A twice: A = 1 ends as A = 3 with Z clear) and the fetch after that
\* advances normally.
C5_HaltBug == [][C5Step]_vars

\* C5 witness: LD A,1 ; HALT ; INC A ended the second INC A with A = 3, Z = 0
C5_Witness ==
    /\ ev.kind = "instr" /\ ev.twice /\ ev.opcode = OpINC_A
    /\ mem_read(bus, U16(ev.pc - 1)) = OpHALT /\ mem_read(bus, U16(ev.pc - 2)) = 1
    /\ get_a(cpu) = 3 /\ ~cpu.f.z /\ cpu.pc = U16(ev.pc + 1)

\* Once DI has completed, IME is false and no EI is pending, and this lasts
\* until an EI or a RETI is executed
C6_DiHolds == ev.di_clean => (~cpu.ime /\ ~cpu.pending_ime)

\* C6: when DI completes, IME is false and no EI is pending, whatever the
\* state before; IME then stays false until a later EI, after its delay, or a
\* RETI: it is false for as long as neither has been executed, and it is still
\* false when an EI executed after the DI has completed, its delay not yet
\* passed.
C6Step ==
    /\ ev'.di_clean => (~cpu'.ime /\ ~cpu'.pending_ime)
    /\ (ev.di_clean /\ ev'.kind = "instr" /\ ev'.opcode = OpEI /\ ev' # ev) =>
          ~cpu'.ime

C6_DiHoldsUntilEiDelay == [][C6Step]_vars

\* C6 witness: DI executed with IME set (directly after EI) left IME clear
C6_Witness ==
    /\ ev.kind = "instr" /\ ev.opcode = OpDI /\ ev.ime
    /\ mem_read(bus, U16(ev.pc - 1)) = OpEI
    /\ ev.di_clean /\ ~cpu.ime /\ ~cpu.pending_ime

\* C7: get_highest_priority_interrupt returns the source with the lowest
\* bit index i in 0..4 whose bit is set in both IE and IF, and none exactly
\* when there is no such bit; has_pending_interrupts is true exactly when a
\* source is returned; the vector of source i is 0x40 + 8 * i.
C7_Priority ==
    /\ \A i \in InterruptType : get_interrupt_vector(i) = 64 + 8 * i
    /\ ev.kind = "priority" =>
          /\ ev.irq = LowestPending(bus)
          /\ ev.irq \in InterruptType \cup {None}
          /\ (ev.irq = None) = (\A i \in 0..4 : ~PendingAt(bus, i))
          /\ (ev.val = 1) = (ev.irq # None)
          /\ ev.irq # None => ev.addr = 64 + 8 * ev.irq

\* C7 witness: the timer is selected although serial and joypad are pending
\* too, VBlank is only enabled and LCD STAT is only requested
C7_Witness ==
    /\ ev.kind = "priority" /\ ev.irq = Timer /\ ev.addr = 80 /\ ev.val = 1
    /\ PendingAt(bus, Serial) /\ PendingAt(bus, Joypad)
    /\ Bit(get_ie(bus), VBlank) = 1 /\ Bit(get_if(bus), VBlank) = 0
    /\ Bit(get_ie(bus), LcdStat) = 0 /\ Bit(get_if(bus), LcdStat) = 1
    /\ get_ie(bus) >= 224 /\ get_if(bus) >= 224

\* C8, one operation on the interrupt registers
C8Step ==
    /\ get_if(bus') >= 224 /\ get_ie(bus') >= 224
    /\ read_byte(bus', AddrIF).val >= 224 /\ read_byte(bus', AddrIE).val >= 224
    /\ ev'.kind = "read" =>
          /\ ev'.val >= 224
          /\ ev'.val = IF ev'.addr = AddrIF THEN get_if(bus) ELSE get_ie(bus)
          /\ get_if(bus') = get_if(bus) /\ get_ie(bus') = get_ie(bus)
    /\ (ev'.kind = "write" /\ ev'.addr = AddrIF) =>
          /\ get_if(bus') = 224 + (ev'.val % 32)
          /\ get_ie(bus') = get_ie(bus)
    /\ (ev'.kind = "write" /\ ev'.addr = AddrIE) =>
          /\ get_ie(bus') = 224 + (ev'.val % 32)
          /\ get_if(bus') = get_if(bus)
    /\ ev'.kind = "request" =>
          /\ \A j \in 0..7 :
                Bit(get_if(bus'), j) = IF j = ev'.irq THEN 1 ELSE Bit(get_if(bus), j)
          /\ get_ie(bus') = get_ie(bus)
    /\ ev'.kind = "clear" =>
          /\ \A j \in 0..7 :
                Bit(get_if(bus'), j) = IF j = ev'.irq THEN 0 ELSE Bit(get_if(bus), j)
          /\ get_ie(bus') = get_ie(bus)

\* C8: after any sequence of CPU writes to 0xFF0F and 0xFFFF, requests and
\* clears, IF and IE read with bits 5-7 set; a write sets bits 0-4 to the
\* written bits 0-4 and changes nothing else; a request or clear changes
\* only its source's bit of IF.
C8_Masking == [][C8Step]_vars

\* C8 witness: IE read back as 0xF5 after 0x15 was written, IF holding 0xEB
\* after 0xAA was written and VBlank requested
C8_Witness ==
    /\ ev.kind = "read" /\ ev.addr = AddrIE /\ ev.val = 245
    /\ get_if(bus) = 235

\* The transfer started by the write to 0xFF46 has not completed its 160th
\* m-cycle
InDmaWindow == ev.dma_at # None /\ bus.clock - ev.dma_at < 160

\* C9, as the specification states it: from the write to 0xFF46 until the 160th m-cycle after
\* it has completed, a read outside 0xFF80-0xFFFE returns 0xFF and a write
\* outside it changes nothing, whatever HRAM accesses come in between.
C9_DmaLockout ==
    [][InDmaWindow =>
          /\ (ev'.kind = "read" /\ ~(ev'.addr \in 65408..65534)) => ev'.val = 255
          /\ (ev'.kind = "write" /\ ~(ev'.addr \in 65408..65534)) => bus' = bus]_vars

\* m-cycles since the write to 0xFF46
DmaElapsed == bus.clock - ev.dma_at
\* The byte at (page << 8) + i for the source pages of the DMA programmes
SrcByte(i) ==
    IF ev.dma_page = 1 THEN ArrGet(bus.rom.data, 256 + i, 0)
    ELSE ArrGet(bus.wram, i, 0)

\* C10: after a write of v to 0xFF46 the transfer copies one byte per
\* m-cycle, byte i of page v to OAM[i] in increasing i; it is active for
\* exactly 160 m-cycles, after which OAM[0..159] equals the source page's
\* first 160 bytes, and the first CPU access after them (from the 161st
\* m-cycle) reads the real byte.
C10_DmaTransfer ==
    ev.dma_at # None =>
        /\ ev.dma_page \in DmaPages
        /\ bus.ppu.oam_dma_active = (DmaElapsed < 160)
        /\ is_memory_access_in_progress(bus) = (DmaElapsed < 160)
        /\ DmaElapsed < 160 => bus.ppu.oam_dma_byte = DmaElapsed
        /\ \A i \in 0..159 :
              ArrGet(bus.ppu.oam, i, 0) = IF i < DmaElapsed THEN SrcByte(i) ELSE 0
        /\ ev.kind \in {"instr", "stall"}
        /\ ev.kind = "stall" => DmaElapsed <= 160
        /\ (ev.kind = "instr" /\ DmaElapsed <= 160) => ev.opcode = OpLDH_W
        /\ (ev.kind = "instr" /\ ev.opcode = OpLD_R) =>
              /\ DmaElapsed >= 164
              /\ get_a(cpu) = ArrGet(bus.wram, mem_read(bus, U16(ev.pc + 1)), 0)
              /\ get_a(cpu) \in DmaBytes

\* C10 witness: the transfer from page 0xC0 is over, OAM[0] = 7 and
\* OAM[0x9F] = 66 as in WRAM, and LD A,(0xC09F) read 66
C10_Witness ==
    /\ ev.dma_at # None /\ ev.dma_page = 192 /\ DmaElapsed >= 160
    /\ ~bus.ppu.oam_dma_active
    /\ ArrGet(bus.ppu.oam, 0, 0) = 7 /\ ArrGet(bus.ppu.oam, 159, 0) = 66
    /\ ArrGet(bus.wram, 0, 0) = 7 /\ ArrGet(bus.wram, 159, 0) = 66
    /\ ev.kind = "instr" /\ ev.opcode = OpLD_R /\ get_a(cpu) = 66

\* C11, as the specification states it: while an OAM DMA transfer is active
\* the scheduler keeps fetching and executing instructions, so no step
\* taken during the transfer is a stall that only ticks the bus.
C11_CpuRunsDuringDma ==
    [][(bus.clock < ev.limit /\ bus.ppu.oam_dma_active) => ev'.kind # "stall"]_vars

(***************************************************************************)
(* The timer through the bus: t-cycles and CPU writes to 0xFF04-0xFF07     *)
(***************************************************************************)
\* Longest run of t-cycles when no write is made at all: the divider, which
\* starts at 0xABCC, wraps past 0xFFFF after 21556 t-cycles
MaxDivRun == 21600
\* Longest run of t-cycles when every write was made before the first t-cycle
MaxTimerRun == 1100
\* Last t-cycle at which a first write between t-cycles may be made
MaxWriteAt == 21
\* t-cycles run after the first write made between t-cycles
MaxAfterWrite == 6
\* Writes made before the first t-cycle, and writes made between t-cycles
MaxSetupWrites == 2
MaxMidWrites == 2

AddrDIV == 65284
AddrTIMA == 65285
AddrTMA == 65286
AddrTAC == 65287

\* The (address, value) pairs the CPU writes: DIV reset, TAC enabled with each
\* clock select and disabled, TIMA near overflow and mid-range, TMA
TimerWrites ==
    { <<AddrDIV, 0>>,
      <<AddrTAC, 4>>, <<AddrTAC, 5>>, <<AddrTAC, 6>>, <<AddrTAC, 7>>, <<AddrTAC, 1>>,
      <<AddrTIMA, 255>>, <<AddrTIMA, 51>>,
      <<AddrTMA, 128>> }

\* The writes made once a first write between t-cycles has been made
TimerLateWrites ==
    { <<AddrDIV, 0>>, <<AddrTAC, 7>>,
      <<AddrTIMA, 51>>, <<AddrTIMA, 99>>, <<AddrTMA, 128>> }

\* ev after a timer operation: the TIMA value before it, the overflow window
\* the operation opened (when and by what), and the Timer requests so far
TimerEv(kind, addr, val, irq) ==
    [ev EXCEPT !.kind = kind, !.addr = addr, !.val = val,
               !.irq = IF irq THEN Timer ELSE None,
               !.tima = bus.timer.tima,
               !.irqs = IF irq THEN @ + 1 ELSE @]

\* MemoryBus::update_timer_cycle and, when it returns true, request_interrupt
\* (one pass of the loop at memory.rs:279-284)
TimerCycle ==
    /\ ev.t < (IF ev.mid_at # None THEN ev.mid_at + MaxAfterWrite
               ELSE IF ev.setup = 0 THEN MaxDivRun ELSE MaxTimerRun)
    /\ \E r \in {update_cycle(bus.timer)} :
        /\ bus' = timer_cycle(bus)
        /\ ev' = [TimerEv("tcycle", None, None, r.irq) EXCEPT
                    !.t = @ + 1,
                    !.inc_at = IF r.timer.tima_overflow
                                  \/ (bus.timer.tima_overflow /\ ~r.timer.tima_overflow)
                               THEN None
                               ELSE IF r.timer.tima # bus.timer.tima THEN ev.t + 1
                               ELSE @,
                    !.ovf_at = IF ~bus.timer.tima_overflow /\ r.timer.tima_overflow
                               THEN ev.t + 1
                               ELSE IF r.irq THEN None ELSE @,
                    !.ovf_by = IF ~bus.timer.tima_overflow /\ r.timer.tima_overflow
                               THEN "tcycle"
                               ELSE IF r.irq THEN "none" ELSE @,
                    !.wrote = IF r.irq THEN None ELSE @,
                    !.div_at = IF get_div(r.timer) # get_div(bus.timer)
                               THEN ev.t + 1 ELSE @]
    /\ UNCHANGED cpu

\* MemoryBus::write_byte(0xFF04..0xFF07, v) before the first t-cycle
TimerSetup ==
    /\ ev.t = 0 /\ ev.setup < MaxSetupWrites /\ ev.mid_at = None
    /\ \E w \in TimerWrites :
        /\ bus' = write_byte(bus, w[1], w[2])
        /\ ev' = [TimerEv("write", w[1], w[2], FALSE) EXCEPT
                    !.setup = @ + 1, !.inc_at = None,
                    !.ovf_at = IF ~bus.timer.tima_overflow /\ bus'.timer.tima_overflow
                               THEN 0 ELSE @,
                    !.ovf_by = IF ~bus.timer.tima_overflow /\ bus'.timer.tima_overflow
                               THEN "write" ELSE @,
                    !.wrote = IF w[1] = AddrTIMA /\ bus.timer.tima_overflow
                              THEN w[2] ELSE @,
                    !.div_at = IF w[1] = AddrDIV THEN 0 ELSE @]
    /\ UNCHANGED cpu

\* MemoryBus::write_byte(0xFF04..0xFF07, v) between two t-cycles
TimerWrite ==
    /\ ev.t > 0 /\ ev.ops < MaxMidWrites
    /\ ev.mid_at = None => ev.t <= MaxWriteAt
    /\ \E w \in (IF ev.mid_at = None THEN TimerWrites ELSE TimerLateWrites) :
        /\ bus' = write_byte(bus, w[1], w[2])
        /\ ev' = [TimerEv("write", w[1], w[2], FALSE) EXCEPT
                    !.ops = @ + 1, !.inc_at = None,
                    !.mid_at = IF @ = None THEN ev.t ELSE @,
                    !.ovf_at = IF ~bus.timer.tima_overflow /\ bus'.timer.tima_overflow
                               THEN ev.t ELSE @,
                    !.ovf_by = IF ~bus.timer.tima_overflow /\ bus'.timer.tima_overflow
                               THEN "write" ELSE @,
                    !.wrote = IF w[1] = AddrTIMA /\ bus.timer.tima_overflow
                              THEN w[2] ELSE @,
                    !.div_at = IF w[1] = AddrDIV THEN ev.t ELSE @]
    /\ UNCHANGED cpu

TimerNext == TimerCycle \/ TimerSetup \/ TimerWrite

TimerSpec == BusInit /\ [][TimerNext]_vars

\* The divider bit that TAC bits 1-0 select, as the specification lists it
SelectedBit(tac) == CASE tac % 4 = 0 -> 9 [] tac % 4 = 1 -> 3
                      [] tac % 4 = 2 -> 5 [] tac % 4 = 3 -> 7

\* Bit sel of the divider goes from 1 to 0 when the counter d advances by one
BitFalls(d, sel) == Bit(d, sel) = 1 /\ Bit(U16(d + 1), sel) = 0

\* C12: on a t-cycle with no overflow in progress, an enabled timer increments
\* TIMA by exactly one when the selected divider bit (9, 3, 5, 7 for clock
\* select 0, 1, 2, 3) goes from 1 to 0 and leaves it alone otherwise; two
\* increments with no write between them are 1024, 16, 64, 256 t-cycles
\* apart; a disabled timer never changes TIMA on a t-cycle.
C12Step ==
    (ev'.kind = "tcycle" /\ ev'.t = ev.t + 1 /\ ~bus.timer.tima_overflow) =>
        LET tm  == bus.timer
            sel == SelectedBit(tm.tac)
        IN  IF Bit(tm.tac, 2) = 1 /\ BitFalls(tm.div_counter, sel)
            THEN /\ mem_read(bus', AddrTIMA) = (tm.tima + 1) % 256
                 /\ ev.inc_at # None => ev'.t - ev.inc_at = Pow2(sel + 1)
            ELSE mem_read(bus', AddrTIMA) = tm.tima

C12_TimaRate == [][C12Step]_vars

\* Clock select 0: TIMA has gone 0, 1, 2 with the second increment 1024
\* t-cycles after the first
C12_Witness ==
    /\ ev.kind = "tcycle" /\ bus.timer.tac = 4 /\ bus.timer.tima = 2
    /\ ev.inc_at = ev.t /\ ev.t = 1076 /\ ev.setup = 1

\* The timer signal: the selected divider bit AND TAC bit 2
Signal(tm) == Bit(tm.div_counter, SelectedBit(tm.tac)) = 1 /\ Bit(tm.tac, 2) = 1

\* What a DIV or TAC write does to TIMA: one increment on a falling signal
\* (from 0xFF it opens the reload window), nothing otherwise
WriteEdge ==
    IF Signal(bus.timer) /\ ~Signal(bus'.timer)
    THEN /\ mem_read(bus', AddrTIMA) = (bus.timer.tima + 1) % 256
         /\ bus.timer.tima = 255 => ev'.ovf_by = "write"
    ELSE /\ mem_read(bus', AddrTIMA) = bus.timer.tima
         /\ ev'.ovf_by = ev.ovf_by

\* The reload sequence a write-induced overflow starts: TIMA reads 0 with no
\* Timer request on the first three t-cycles after the write, and the fourth
\* loads TIMA and requests the interrupt
WriteOverflowSequence ==
    (ev'.kind = "tcycle" /\ ev'.t = ev.t + 1 /\ ev.ovf_by = "write") =>
        IF ev'.t - ev.ovf_at < 4
        THEN mem_read(bus', AddrTIMA) = 0 /\ ev'.irq = None
        ELSE /\ ev'.t - ev.ovf_at = 4 /\ ev'.irq = Timer
             /\ mem_read(bus', AddrTIMA) =
                    (IF ev.wrote # None THEN ev.wrote ELSE bus.timer.tma)

\* The first sentence of C13 taken for every write, those made while a reload
\* is in progress included: a write to DIV or TAC increments TIMA by exactly
\* one if and only if the signal is 1 before the write and 0 after it, and
\* leaves TIMA unchanged otherwise.
C13_WriteEdgeAlways ==
    [][(ev'.kind = "write" /\ ev' # ev /\ ev'.addr \in {AddrDIV, AddrTAC})
          => WriteEdge]_vars

\* What Timer::set_div and Timer::set_tac do: outside the overflow reload
\* window a write to DIV or TAC increments TIMA by exactly one if and only if
\* the signal is 1 before the write and 0 after it, and leaves TIMA unchanged
\* otherwise; an increment from 0xFF caused this way opens the reload window,
\* which reloads TIMA and requests the Timer interrupt on the fourth t-cycle
\* after the write.  Inside the window such a write leaves TIMA reading 0.
C13Step ==
    /\ (ev'.kind = "write" /\ ev' # ev /\ ev'.addr \in {AddrDIV, AddrTAC}) =>
          IF bus.timer.tima_overflow
          THEN mem_read(bus', AddrTIMA) = 0 /\ bus'.timer.tima_overflow
          ELSE WriteEdge
    /\ WriteOverflowSequence

C13_WriteEdge == [][C13Step]_vars

\* A TAC write between t-cycles has just taken TIMA from 0xFF to 0
C13_Witness ==
    /\ ev.kind = "write" /\ ev.addr = AddrTAC /\ ev.t > 0
    /\ ev.tima = 255 /\ bus.timer.tima = 0 /\ ev.ovf_by = "write"

\* The t-cycles after which a timer with a reload in progress loads TIMA and
\* requests the Timer interrupt
RECURSIVE ReloadDelay(_)
ReloadDelay(tm) ==
    IF update_cycle(tm).irq THEN 1 ELSE 1 + ReloadDelay(update_cycle(tm).timer)

\* A tick-induced overflow of the timer tm (enabled, TIMA at 0xFF): tm after
\* the t-cycle on which its selected divider bit goes from 1 to 0
TickOverflow(tm) ==
    update_cycle([tm EXCEPT !.div_counter = Pow2(SelectedBit(tm.tac) + 1) - 1,
                            !.previous_and_result = TRUE]).timer

\* C13: a write to DIV or TAC made while no reload is in progress increments
\* TIMA by exactly one if and only if the signal is 1 before the write and 0
\* after it, and leaves TIMA unchanged otherwise; an increment from 0xFF
\* caused this way starts the same overflow/reload sequence as a tick-induced
\* one: the reload and the Timer request come as many t-cycles after the
\* write as they come after the t-cycle that takes the same timer from 0xFF
\* to 0.
C13SameStep ==
    (ev'.kind = "write" /\ ev' # ev /\ ev'.addr \in {AddrDIV, AddrTAC}
        /\ ~bus.timer.tima_overflow) =>
        /\ WriteEdge
        /\ bus'.timer.tima_overflow =>
              /\ TickOverflow(bus.timer).tima_overflow
              /\ ReloadDelay(bus'.timer) = ReloadDelay(TickOverflow(bus.timer))

C13_SameReloadSequence == [][C13SameStep]_vars

\* A write has opened the reload window: the reload comes four t-cycles after
\* it, and three t-cycles after a tick-induced overflow of the same timer
C13_DelaysDiffer ==
    /\ ev.kind = "write" /\ ev.addr = AddrDIV /\ ev.tima = 255
    /\ bus.timer.tima_overflow /\ bus.timer.tima_overflow_cycles = 0
    /\ ReloadDelay(bus.timer) = 4
    /\ ReloadDelay(TickOverflow([bus.timer EXCEPT !.tima = 255,
                                                   !.tima_overflow = FALSE])) = 3

\* C14, as the specification states it: after TIMA has incremented from 0xFF,
\* by a t-cycle or by a DIV or TAC write, TIMA reads 0 and no Timer interrupt
\* is requested on the first three t-cycles that follow, and the fourth one
\* loads TIMA from the current TMA and requests the interrupt.
C14Step ==
    (ev'.kind = "tcycle" /\ ev'.t = ev.t + 1 /\ ev.ovf_by # "none"
        /\ ev.wrote = None) =>
        IF ev'.t - ev.ovf_at < 4
        THEN mem_read(bus', AddrTIMA) = 0 /\ ev'.irq = None
        ELSE /\ ev'.t - ev.ovf_at = 4 /\ ev'.irq = Timer
             /\ mem_read(bus', AddrTIMA) = bus.timer.tma

C14_OverflowReload == [][C14Step]_vars

\* C15: a TIMA write while the reload is in progress leaves TIMA reading 0 for
\* the rest of the window; the t-cycle that ends the window requests the Timer
\* interrupt and leaves the last value written in TIMA, whatever TMA holds,
\* with nothing left queued; a TIMA write outside the window is read back at
\* once.
C15Step ==
    /\ (ev'.kind = "write" /\ ev' # ev /\ ev'.addr = AddrTIMA) =>
          IF bus.timer.tima_overflow
          THEN mem_read(bus', AddrTIMA) = 0 /\ bus'.timer.tima_overflow
          ELSE mem_read(bus', AddrTIMA) = ev'.val
    /\ (ev'.kind = "tcycle" /\ ev'.t = ev.t + 1 /\ ev.wrote # None) =>
          /\ bus.timer.tima_overflow
          /\ IF bus'.timer.tima_overflow
             THEN mem_read(bus', AddrTIMA) = 0 /\ ev'.irq = None
             ELSE /\ mem_read(bus', AddrTIMA) = ev.wrote
                  /\ ev'.irq = Timer /\ Bit(get_if(bus'), Timer) = 1
                  /\ bus'.timer.queued_tima_write = None
                  /\ ev'.t - ev.ovf_at <= 4
    /\ bus'.timer.tima_overflow \/ bus'.timer.queued_tima_write = None

C15_DeferredTimaWrite == [][C15Step]_vars

\* The window has just ended with TIMA holding the value 99 written inside it
\* while TMA holds 128
C15_Witness ==
    /\ ev.kind = "tcycle" /\ ev.irq = Timer /\ ev.ops > 0
    /\ bus.timer.tima = 99 /\ bus.timer.tma = 128
    /\ ~bus.timer.tima_overflow

\* C16: DIV read at 0xFF04 is the high byte of the 16-bit counter; a t-cycle
\* adds one to the counter modulo 2^16, so DIV changes only when the low byte
\* wraps and then goes up by one modulo 256; a write of any value to 0xFF04
\* clears the whole counter, DIV reads 0, and the next change of DIV comes
\* exactly 256 t-cycles after the write.
C16Step ==
    /\ mem_read(bus', AddrDIV) = bus'.timer.div_counter \div 256
    /\ (ev'.kind = "tcycle" /\ ev'.t = ev.t + 1) =>
          /\ bus'.timer.div_counter = (bus.timer.div_counter + 1) % 65536
          /\ mem_read(bus', AddrDIV) =
                IF bus.timer.div_counter % 256 = 255
                THEN (mem_read(bus, AddrDIV) + 1) % 256
                ELSE mem_read(bus, AddrDIV)
          /\ (ev.div_at # None /\ ev'.div_at # ev.div_at) =>
                ev'.div_at - ev.div_at = 256
    /\ (ev'.kind = "write" /\ ev' # ev /\ ev'.addr = AddrDIV) =>
          /\ bus'.timer.div_counter = 0
          /\ mem_read(bus', AddrDIV) = 0
    /\ (ev'.kind = "write" /\ ev' # ev /\ ev'.addr # AddrDIV) =>
          bus'.timer.div_counter = bus.timer.div_counter

C16_DivRegister == [][C16Step]_vars

\* DIV has just gone from 0 to 1, 256 t-cycles after a write that cleared it
C16_Witness ==
    /\ ev.kind = "tcycle" /\ ev.t = 256 /\ ev.div_at = 256 /\ ev.setup > 0
    /\ mem_read(bus, AddrDIV) = 1 /\ bus.timer.div_counter = 256

(***************************************************************************)
(* The PPU through the bus: dots and CPU writes to OAM, IF, LCDC, STAT, LYC *)
(***************************************************************************)
\* Dots run after a restart with sprites and no STAT source enabled: the
\* second VBlank entry comes at dot 135888
MaxPpuRun == 135900
\* Dots run after a restart with STAT.4, or with STAT.6 and LYC = 5: one frame
MaxPpuFrame == 70300
\* Dots run in every other configuration: two scanlines
MaxPpuShort == 1000
\* Writes made between dots, and dots run after such a write
MaxPpuWrites == 1
MaxPpuAfterWrite == 8

AddrOAM == 65024
AddrLCDC == 65344
AddrSTAT == 65345
AddrLYC == 65349

\* STAT interrupt-enable bits 3-6 the CPU writes: none, each source alone,
\* HBlank+OamScan, HBlank+LYC, all four
PpuStatVals == {0, 8, 16, 32, 64, 40, 72, 120}
PpuLycVals == {0, 1, 5}

\* What the CPU sets up before the first dot
PpuConfigs ==
    { [sprites |-> sp, restart |-> rs, stat |-> st, lyc |-> ly] :
        sp \in BOOLEAN, rs \in BOOLEAN, st \in PpuStatVals, ly \in PpuLycVals }
    \ { c \in [sprites : {TRUE}, restart : {FALSE},
               stat : PpuStatVals, lyc : PpuLycVals] : TRUE }

\* Y positions for OAM entries 0..11: eleven sprites on lines 0-7, one on
\* lines 8-15
SpriteWrites ==
    [i \in 1..12 |-> <<AddrOAM + 4 * (i - 1), IF i <= 11 THEN 16 ELSE 24>>]

\* The write_byte calls of a configuration, in order: OAM, IF := 0, LCD off
\* and on again (with OBJ enabled when sprites are loaded), STAT, LYC
PpuScript(c) ==
    (IF c.sprites THEN SpriteWrites ELSE <<>>)
    \o << <<AddrIF, 0>> >>
    \o (IF c.restart
        THEN << <<AddrLCDC, 17>>, <<AddrLCDC, IF c.sprites THEN 147 ELSE 145>> >>
        ELSE <<>>)
    \o << <<AddrSTAT, c.stat>>, <<AddrLYC, c.lyc>> >>

\* How many dots a configuration is run for
PpuRunLimit(c) ==
    IF c = [sprites |-> TRUE, restart |-> TRUE, stat |-> 0, lyc |-> 0]
    THEN MaxPpuRun
    ELSE IF c \in { [sprites |-> FALSE, restart |-> TRUE, stat |-> 16, lyc |-> 0],
                    [sprites |-> FALSE, restart |-> TRUE, stat |-> 64, lyc |-> 5] }
    THEN MaxPpuFrame
    ELSE MaxPpuShort

\* The dots at which a write between dots is made: in OamScan, Drawing, HBlank
\* and the next line's OamScan after a restart
PpuWriteDots == {40, 120, 400, 460}

\* The writes made between dots
PpuWrites ==
    { <<AddrSTAT, 0>>, <<AddrSTAT, 8>>, <<AddrSTAT, 16>>, <<AddrSTAT, 32>>,
      <<AddrSTAT, 64>>, <<AddrLYC, 0>>, <<AddrLYC, 1>> }

\* The STAT interrupt line: the OR of the enabled sources
StatLine(p) ==
    /\ lcd_enabled(p)
    /\ \/ p.ly = p.lyc /\ Bit(p.stat, 6) = 1
       \/ p.mode = "HBlank" /\ Bit(p.stat, 3) = 1
       \/ p.mode = "VBlank" /\ Bit(p.stat, 4) = 1
       \/ p.mode = "OamScan" /\ Bit(p.stat, 5) = 1

\* MemoryBus::write_byte, one call of the configuration's script
PpuSetup ==
    /\ ev.t = 0
    /\ \E c \in (IF ev.kind = "init" THEN PpuConfigs ELSE {ev.cfg}) :
        /\ ev.setup < Len(PpuScript(c))
        /\ \E w \in {PpuScript(c)[ev.setup + 1]} :
            /\ bus' = write_byte(bus, w[1], w[2])
            /\ ev' = [ev EXCEPT !.kind = "write", !.addr = w[1], !.val = w[2],
                                !.irq = None, !.cfg = c, !.setup = @ + 1,
                                !.rose = FALSE]
    /\ UNCHANGED cpu

\* Ppu::update(1) and, when it returns an interrupt, request_interrupt
\* (one pass of the loop at memory.rs:286-291)
PpuDot ==
    /\ ev.kind = "init" \/ ev.setup = Len(PpuScript(ev.cfg))
    /\ ev.t < (IF ev.mid_at # None THEN ev.mid_at + MaxPpuAfterWrite
               ELSE IF ev.kind = "init" THEN MaxPpuShort
               ELSE PpuRunLimit(ev.cfg))
    /\ \E r \in {ppu_update(bus.ppu, 1)} :
        /\ bus' = IF r.irq # None
                  THEN request_interrupt([bus EXCEPT !.ppu = r.ppu], r.irq)
                  ELSE [bus EXCEPT !.ppu = r.ppu]
        /\ ev' = [ev EXCEPT
                    !.kind = "dot", !.addr = None, !.val = None,
                    !.irq = r.irq, !.t = @ + 1,
                    !.ly_at = IF r.ppu.ly # bus.ppu.ly THEN ev.t + 1 ELSE @,
                    !.mode_at = IF r.ppu.mode # bus.ppu.mode THEN ev.t + 1 ELSE @,
                    !.vblank_at = IF r.ppu.mode = "VBlank" /\ bus.ppu.mode # "VBlank"
                                  THEN ev.t + 1 ELSE @,
                    !.rose = ~StatLine(bus.ppu) /\ StatLine(r.ppu)
                             /\ r.irq # LcdStat,
                    !.frame_stat = (IF r.ppu.ly = 0 /\ bus.ppu.ly # 0 THEN 0 ELSE @)
                                   + (IF r.irq = LcdStat THEN 1 ELSE 0),
                    !.frame_vb = (IF r.ppu.ly = 0 /\ bus.ppu.ly # 0 THEN 0 ELSE @)
                                 + (IF r.irq = VBlank THEN 1 ELSE 0)]
    /\ UNCHANGED cpu

\* MemoryBus::write_byte(0xFF41 or 0xFF45, v) between two dots
PpuWrite ==
    /\ ev.t \in PpuWriteDots /\ ev.ops < MaxPpuWrites
    /\ \E w \in PpuWrites :
        /\ bus' = write_byte(bus, w[1], w[2])
        /\ ev' = [ev EXCEPT !.kind = "write", !.addr = w[1], !.val = w[2],
                            !.irq = None, !.ops = @ + 1, !.mid_at = ev.t,
                            !.rose = ~StatLine(bus.ppu) /\ StatLine(bus'.ppu)]
    /\ UNCHANGED cpu

PpuNext == PpuSetup \/ PpuDot \/ PpuWrite

PpuSpec == BusInit /\ [][PpuNext]_vars

\* The number of sprites selected for the line the PPU is on: the OAM entries
\* whose rows y-16 .. y-16+height-1 include LY, at most 10, none with OBJ off
SelectedCount(p) ==
    IF Bit(p.lcdc, 1) = 0 THEN 0
    ELSE LET h  == IF Bit(p.lcdc, 2) = 1 THEN 16 ELSE 8
             on == { j \in 0..39 :
                       /\ p.ly + 16 >= ArrGet(p.oam, 4 * j, 0)
                       /\ p.ly + 16 < ArrGet(p.oam, 4 * j, 0) + h }
         IN  IF Cardinality(on) > 10 THEN 10 ELSE Cardinality(on)

\* Dots of Drawing on the line the PPU is on
DrawingDots(p) ==
    172 + (IF 6 * SelectedCount(p) < 60 THEN 6 * SelectedCount(p) ELSE 60)

\* C17: with the LCD on, LY changes exactly every 456 dots and goes
\* 0, 1, ..., 153, 0; on a visible line OamScan lasts 80 dots, Drawing
\* 172 + min(6n, 60) and HBlank the rest of the 456, whatever the number n of
\* selected sprites; HBlank of line 143 ends in VBlank, which lasts until LY
\* returns to 0; two consecutive VBlank entries are 70224 dots apart.
C17Step ==
    (ev'.kind = "dot" /\ ev'.t = ev.t + 1 /\ lcd_enabled(bus.ppu)) =>
        LET p == bus.ppu
            q == bus'.ppu
            d == ev'.t - ev.mode_at
        IN  /\ IF q.ly # p.ly
               THEN ev'.t - ev.ly_at = 456 /\ q.ly = (p.ly + 1) % 154
               ELSE ev'.t - ev.ly_at < 456
            /\ p.mode = "OamScan" =>
                  IF d = 80 THEN q.mode = "Drawing" ELSE d < 80 /\ q.mode = p.mode
            /\ p.mode = "Drawing" =>
                  IF d = DrawingDots(p) THEN q.mode = "HBlank"
                  ELSE d < DrawingDots(p) /\ q.mode = p.mode
            /\ p.mode = "HBlank" =>
                  IF d = 456 - 80 - DrawingDots(p)
                  THEN /\ q.ly # p.ly
                       /\ q.mode = IF q.ly = 144 THEN "VBlank" ELSE "OamScan"
                  ELSE d < 456 - 80 - DrawingDots(p) /\ q.mode = p.mode
            /\ p.mode = "VBlank" =>
                  q.mode = IF q.ly = 0 /\ p.ly = 153 THEN "OamScan" ELSE "VBlank"
            /\ (q.mode = "VBlank" /\ p.mode # "VBlank" /\ ev.vblank_at # None) =>
                  ev'.t - ev.vblank_at = 70224
            /\ q.mode_cycles < 456

C17_ScanlineTiming == [][C17Step]_vars

\* Line 0 has just ended at dot 456 with eleven sprites on it, ten of them
\* selected: OamScan 80, Drawing 232, HBlank 144
C17_Witness ==
    /\ ev.kind = "dot" /\ ev.cfg.sprites /\ ev.t = 456 /\ ev.ly_at = 456
    /\ bus.ppu.ly = 1 /\ bus.ppu.mode = "OamScan"
    /\ Len(bus.ppu.scanline_sprites) = 10

\* C18, as the specification states it: with the LCD on, the dot on which
\* HBlank of line 143 ends and LY becomes 144 enters VBlank mode, sets
\* frame_ready and requests the VBlank interrupt (IF bit 0), whatever STAT
\* bits 3-6 hold; no other dot requests it, so a frame has exactly one request.
C18Step ==
    (ev'.kind = "dot" /\ ev'.t = ev.t + 1 /\ lcd_enabled(bus.ppu)) =>
        /\ (bus.ppu.mode = "HBlank" /\ bus.ppu.ly = 143 /\ bus'.ppu.ly = 144) =>
              /\ ev'.irq = VBlank
              /\ Bit(get_if(bus'), VBlank) = 1
              /\ bus'.ppu.mode = "VBlank"
              /\ bus'.ppu.frame_ready
        /\ ev'.irq = VBlank => bus.ppu.ly = 143 /\ bus'.ppu.ly = 144
        /\ ev'.frame_vb <= 1

C18_VBlankInterrupt == [][C18Step]_vars

\* C19, as the specification states it: when the STAT line (LY=LYC with
\* STAT.6, HBlank with STAT.3, VBlank with STAT.4, OamScan with STAT.5) goes
\* from 0 to 1 with the LCD on, by a dot or by a CPU write to STAT or LYC, an
\* LcdStat interrupt is requested (IF bit 1): on that step or, at the latest,
\* on the dot that follows it.
C19Step ==
    (ev'.kind = "dot" /\ ev'.t = ev.t + 1 /\ ev.rose) =>
        ev'.irq = LcdStat /\ Bit(get_if(bus'), LcdStat) = 1

C19_StatRisingEdge == [][C19Step]_vars

\* C20, as the specification states it: a dot requests the LcdStat interrupt
\* only if the STAT line went from 0 to 1 on that dot or on the step before
\* it; in particular the change from OamScan to Drawing requests nothing.
C20Step ==
    (ev'.kind = "dot" /\ ev'.t = ev.t + 1 /\ ev'.irq = LcdStat) =>
        \/ ~StatLine(bus.ppu) /\ StatLine(bus'.ppu)
        \/ ev.rose

C20_StatOnlyRisingEdge == [][C20Step]_vars

(***************************************************************************)
(* LCD registers and video memory: the PPU driven dot by dot, with CPU     *)
(* writes to LCDC, STAT, LYC, VRAM and OAM between dots.  ev.t counts the  *)
(* dots made, ev.ops the writes made between dots, ev.stat_w is the last   *)
(* byte written to STAT, ev.mid_at the dot of the first write between      *)
(* dots, and ev.cfg.restart tells whether the run began by switching the   *)
(* LCD off and on again.                                                   *)
(***************************************************************************)
MaxLcdRun == 470
MaxLcdWrites == 2

AddrVRAM == 32768

\* The writes made before the first dot: IF cleared and, for a restart, the
\* LCD switched off and on
LcdScript(restart) ==
    << <<AddrIF, 0>> >>
    \o (IF restart THEN << <<AddrLCDC, 17>>, <<AddrLCDC, 145>> >> ELSE <<>>)

\* The dots at which a write between dots is made: the first dots of OamScan,
\* Drawing, HBlank and of the next line's OamScan after a restart at dot 0,
\* and dots inside each of these modes
LcdWriteDots == {0, 40, 80, 120, 252, 300, 456, 460}

\* The writes made between dots
LcdWrites ==
    { <<AddrLCDC, 17>>, <<AddrLCDC, 145>>, <<AddrSTAT, 72>>, <<AddrSTAT, 135>>,
      <<AddrLYC, 1>>, <<AddrVRAM, 90>>, <<AddrOAM, 90>> }

\* ev after a write of the run
LcdEv(w) ==
    [ev EXCEPT !.kind = "write", !.addr = w[1], !.val = w[2], !.irq = None,
               !.stat_w = IF w[1] = AddrSTAT THEN w[2] ELSE @]

\* MemoryBus::write_byte, one call of the script
LcdSetup ==
    /\ ev.t = 0 /\ ev.ops = 0
    /\ \E restart \in (IF ev.kind = "init" THEN BOOLEAN ELSE {ev.cfg.restart}) :
        /\ ev.setup < Len(LcdScript(restart))
        /\ \E w \in {LcdScript(restart)[ev.setup + 1]} :
            /\ bus' = write_byte(bus, w[1], w[2])
            /\ ev' = [LcdEv(w) EXCEPT !.cfg.restart = restart, !.setup = @ + 1]
    /\ UNCHANGED cpu

\* Ppu::update(1) and, when it returns an interrupt, request_interrupt
\* (one pass of the loop at memory.rs:286-291)
LcdDot ==
    /\ ev.kind # "init" /\ ev.setup = Len(LcdScript(ev.cfg.restart))
    /\ ev.t < MaxLcdRun
    /\ \E r \in {ppu_update(bus.ppu, 1)} :
        /\ bus' = IF r.irq # None
                  THEN request_interrupt([bus EXCEPT !.ppu = r.ppu], r.irq)
                  ELSE [bus EXCEPT !.ppu = r.ppu]
        /\ ev' = [ev EXCEPT !.kind = "dot", !.addr = None, !.val = None,
                            !.irq = r.irq, !.t = @ + 1]
    /\ UNCHANGED cpu

\* MemoryBus::write_byte(addr, v) between two dots
LcdWrite ==
    /\ ev.kind # "init" /\ ev.setup = Len(LcdScript(ev.cfg.restart))
    /\ ev.t \in LcdWriteDots /\ ev.ops < MaxLcdWrites
    /\ \E w \in LcdWrites :
        /\ bus' = write_byte(bus, w[1], w[2])
        /\ ev' = [LcdEv(w) EXCEPT !.ops = @ + 1,
                                   !.mid_at = IF ev.ops = 0 THEN ev.t ELSE @]
    /\ UNCHANGED cpu

LcdNext == LcdSetup \/ LcdDot \/ LcdWrite

LcdSpec == BusInit /\ [][LcdNext]_vars

\* C21, as the specification states it: a read of 0xFF41 returns bit 7 set,
\* in bits 6-3 the last value written to STAT (0 before the first write), in
\* bit 2 whether LY = LYC, and in bits 1-0 the number of the current mode;
\* and a write to STAT changes none of bits 7, 2, 1 and 0 of what is read.
C21Step ==
    /\ Bit(mem_read(bus', AddrSTAT), 7) = 1
    /\ BitAnd(mem_read(bus', AddrSTAT), 120)
         = (IF ev'.stat_w = None THEN 0 ELSE BitAnd(ev'.stat_w, 120))
    /\ Bit(mem_read(bus', AddrSTAT), 2)
         = (IF bus'.ppu.ly = bus'.ppu.lyc THEN 1 ELSE 0)
    /\ mem_read(bus', AddrSTAT) % 4 = ModeNum(bus'.ppu.mode)
    /\ (ev'.kind = "write" /\ ev'.addr = AddrSTAT) =>
          BitAnd(mem_read(bus', AddrSTAT), 135) = BitAnd(mem_read(bus, AddrSTAT), 135)

C21_StatRegister == [][C21Step]_vars

\* Whether the mode bars the CPU from OAM, and from VRAM
OamBarred(p) == lcd_enabled(p) /\ p.mode \in {"OamScan", "Drawing"}
VramBarred(p) == lcd_enabled(p) /\ p.mode = "Drawing"

\* C22, as the specification states it: with the LCD on, in OamScan and in
\* Drawing a read of OAM returns 0xFF and a write to OAM changes nothing, in
\* Drawing the same holds for VRAM, and in HBlank and VBlank both memories are
\* read and written normally; this holds from the first dot of each mode,
\* that is, in the state each dot leaves behind.
C22Step ==
    /\ (ev'.kind = "dot" /\ OamBarred(bus'.ppu)) => mem_read(bus', AddrOAM) = 255
    /\ (ev'.kind = "dot" /\ VramBarred(bus'.ppu)) => mem_read(bus', AddrVRAM) = 255
    /\ (ev'.kind = "dot" /\ lcd_enabled(bus'.ppu) /\ ~OamBarred(bus'.ppu)) =>
          mem_read(bus', AddrOAM) = ArrGet(bus'.ppu.oam, 0, 0)
    /\ (ev'.kind = "dot" /\ lcd_enabled(bus'.ppu) /\ ~VramBarred(bus'.ppu)) =>
          mem_read(bus', AddrVRAM) = ArrGet(bus'.ppu.vram, 0, 0)
    /\ (ev.kind = "dot" /\ ev'.kind = "write" /\ ev'.addr = AddrOAM
          /\ lcd_enabled(bus.ppu)) =>
          IF OamBarred(bus.ppu) THEN bus'.ppu.oam = bus.ppu.oam
          ELSE ArrGet(bus'.ppu.oam, 0, 0) = ev'.val
    /\ (ev.kind = "dot" /\ ev'.kind = "write" /\ ev'.addr = AddrVRAM
          /\ lcd_enabled(bus.ppu)) =>
          IF VramBarred(bus.ppu) THEN bus'.ppu.vram = bus.ppu.vram
          ELSE ArrGet(bus'.ppu.vram, 0, 0) = ev'.val

C22_AccessGating == [][C22Step]_vars

AddrLY == 65348

\* C23: while LCDC bit 7 is clear, LY reads 0, the mode is HBlank (STAT bits
\* 1-0 read 0), the dot counter is 0, every read and write of VRAM and OAM
\* succeeds, and a dot requests no interrupt; setting LCDC bit 7 again
\* restarts the PPU at LY 0, dot 0, in OamScan.
C23Step ==
    /\ ~lcd_enabled(bus'.ppu) =>
          /\ mem_read(bus', AddrLY) = 0
          /\ bus'.ppu.mode = "HBlank" /\ mem_read(bus', AddrSTAT) % 4 = 0
          /\ bus'.ppu.mode_cycles = 0
          /\ mem_read(bus', AddrOAM) = ArrGet(bus'.ppu.oam, 0, 0)
          /\ mem_read(bus', AddrVRAM) = ArrGet(bus'.ppu.vram, 0, 0)
    /\ (~lcd_enabled(bus.ppu) /\ ev'.kind = "write" /\ ev'.addr = AddrOAM) =>
          mem_read(bus', AddrOAM) = ev'.val
    /\ (~lcd_enabled(bus.ppu) /\ ev'.kind = "write" /\ ev'.addr = AddrVRAM) =>
          mem_read(bus', AddrVRAM) = ev'.val
    /\ (~lcd_enabled(bus.ppu) /\ ev'.kind = "dot") =>
          ev'.irq = None /\ get_if(bus') = get_if(bus)
    /\ (~lcd_enabled(bus.ppu) /\ lcd_enabled(bus'.ppu)) =>
          /\ mem_read(bus', AddrLY) = 0
          /\ bus'.ppu.mode_cycles = 0
          /\ bus'.ppu.mode = "OamScan" /\ mem_read(bus', AddrSTAT) % 4 = 2

C23_LcdOff == [][C23Step]_vars

\* The LCD was switched off at dot 456, on line 1, stayed off for four dots
\* and has just been switched on again
C23_Witness ==
    /\ ev.cfg.restart /\ ev.mid_at = 456 /\ ev.t = 460 /\ ev.ops = 2
    /\ ev.kind = "write" /\ ev.addr = AddrLCDC /\ ev.val = 145
    /\ bus.ppu.ly = 0 /\ bus.ppu.mode = "OamScan" /\ bus.ppu.mode_cycles = 0

(***************************************************************************)
(* Serial port: SB and SC written once, then the serial clock advanced one *)
(* t-cycle per step.  ev.wrote is the byte written to SB, ev.val the byte  *)
(* written to SC, ev.t the t-cycles made since the SC write and ev.irqs    *)
(* the Serial requests made since then.                                    *)
(***************************************************************************)
MaxSerialRun == 4200

AddrSB == 65281
AddrSC == 65282

SerialData == {0, 65, 165, 255}
SerialControls == {128, 129, 130, 131, 255, 1}

\* MemoryBus::write_byte: IF cleared, then SB, then SC
SerialSetup ==
    /\ ev.setup < 3
    /\ \/ /\ ev.setup = 0
          /\ bus' = write_byte(bus, AddrIF, 0)
          /\ ev' = [ev EXCEPT !.kind = "write", !.setup = 1]
       \/ /\ ev.setup = 1
          /\ \E v \in SerialData :
               /\ bus' = write_byte(bus, AddrSB, v)
               /\ ev' = [ev EXCEPT !.kind = "write", !.setup = 2, !.wrote = v]
       \/ /\ ev.setup = 2
          /\ \E v \in SerialControls :
               /\ bus' = write_byte(bus, AddrSC, v)
               /\ ev' = [ev EXCEPT !.kind = "write", !.setup = 3, !.val = v]
    /\ UNCHANGED cpu

\* MemoryBus::update_serial_cycle and, when it returns true,
\* request_interrupt(Serial) (one pass of the loop at memory.rs:293-297)
SerialCycle ==
    /\ ev.setup = 3 /\ ev.t < MaxSerialRun
    /\ \E r \in {update_serial_cycle(bus)} :
        /\ bus' = IF r.irq THEN request_interrupt(r.bus, Serial) ELSE r.bus
        /\ ev' = [ev EXCEPT !.kind = "cycle", !.t = @ + 1,
                            !.irq = IF r.irq THEN Serial ELSE None,
                            !.irqs = @ + (IF r.irq THEN 1 ELSE 0)]
    /\ UNCHANGED cpu

SerialNext == SerialSetup \/ SerialCycle

SerialSpec == BusInit /\ [][SerialNext]_vars

\* C24: after SB and then SC are written, SC with bits 7 and 0 set, the
\* first 4095 t-cycles request no Serial interrupt and leave SC bit 7 set; at
\* t-cycle 4096 SC bit 7 is clear, SB reads 0xFF and exactly one Serial
\* interrupt has been requested (IF bit 3), and none follows.  After SC is
\* written with bit 7 set and bit 0 clear, a t-cycle changes nothing: SC bit 7
\* stays set, SB keeps the written byte and no Serial interrupt is requested.
C24Step ==
    (ev'.setup = 3 /\ Bit(ev'.val, 7) = 1) =>
        IF Bit(ev'.val, 0) = 1
        THEN /\ ev'.t <= 4095 =>
                  /\ ev'.irqs = 0 /\ Bit(get_if(bus'), Serial) = 0
                  /\ Bit(mem_read(bus', AddrSC), 7) = 1
             /\ ev'.t >= 4096 =>
                  /\ ev'.irqs = 1 /\ Bit(get_if(bus'), Serial) = 1
                  /\ Bit(mem_read(bus', AddrSC), 7) = 0
                  /\ mem_read(bus', AddrSB) = 255
             /\ ev'.irq = Serial <=> (ev'.kind = "cycle" /\ ev'.t = 4096)
        ELSE /\ ev'.irqs = 0 /\ Bit(get_if(bus'), Serial) = 0
             /\ Bit(mem_read(bus', AddrSC), 7) = 1
             /\ mem_read(bus', AddrSB) = ev'.wrote
             /\ ev'.kind = "cycle" => bus' = bus

C24_SerialTransfer == [][C24Step]_vars

\* 0x41 was written to SB and 0x81 to SC, and the 4096th t-cycle has just
\* requested the Serial interrupt
C24_Witness ==
    /\ ev.setup = 3 /\ ev.wrote = 65 /\ ev.val = 129 /\ ev.t = 4096
    /\ ev.irq = Serial /\ mem_read(bus, AddrSB) = 255
    /\ mem_read(bus, AddrSC) = 1

(***************************************************************************)
(* Joypad (memory.rs): keys pressed and released between t-cycles.  A      *)
(* button is its index in JoypadButton: Right, Left, Up, Down, A, B,       *)
(* Select, Start; key 8 stands for the keys that are mapped to no button.  *)
(* ev.addr is the key of the last event and ev.val whether it was a press. *)
(***************************************************************************)
Buttons == 0..7
Keys == 0..8

\* The bit of a button in its nibble (memory.rs:661-671)
ButtonMask(button) == Pow2(button % 4)

\* Whether the button's bit says released
Released(b, button) ==
    IF button < 4 THEN Bit(b.joypad_dpad, button % 4) = 1
    ELSE Bit(b.joypad_buttons, button % 4) = 1

\* MemoryBus::press_button, the bit cleared (memory.rs:659-671)
press_bit(b, button) ==
    IF button < 4
    THEN [b EXCEPT !.joypad_dpad = BitAnd(@, Not8(ButtonMask(button)))]
    ELSE [b EXCEPT !.joypad_buttons = BitAnd(@, Not8(ButtonMask(button)))]

\* (joypad_buttons & 0x0F) | (joypad_dpad & 0x0F)
joypad_state(b) == BitOr(BitAnd(b.joypad_buttons, 15), BitAnd(b.joypad_dpad, 15))

\* MemoryBus::press_button
press_button(b, button) ==
    Then(press_bit(b, button), LAMBDA n :
        IF BitAnd(joypad_state(b), joypad_state(n)) # joypad_state(b)
        THEN [request_interrupt(n, Joypad) EXCEPT !.last_joypad_state = joypad_state(n)]
        ELSE [n EXCEPT !.last_joypad_state = joypad_state(n)])

\* MemoryBus::release_button
release_button(b, button) ==
    IF button < 4
    THEN [b EXCEPT !.joypad_dpad = BitOr(@, ButtonMask(button))]
    ELSE [b EXCEPT !.joypad_buttons = BitOr(@, ButtonMask(button))]

\* MemoryBus::handle_key_event
handle_key_event(b, key, pressed) ==
    IF pressed /\ b.joypad_debounce_counter > 0 THEN b
    ELSE IF key \notin Buttons THEN b
    ELSE IF pressed
    THEN [press_button(b, key) EXCEPT !.joypad_debounce_counter = b.joypad_debounce_delay]
    ELSE release_button(b, key)

\* MemoryBus::handle_key_event(key, pressed)
JoyKey ==
    \E key \in Keys, pressed \in BOOLEAN :
        /\ bus' = handle_key_event(bus, key, pressed)
        /\ ev' = [NoEv EXCEPT !.kind = "key", !.addr = key,
                              !.val = IF pressed THEN 1 ELSE 0]
        /\ UNCHANGED cpu

\* MemoryBus::update_joypad_cycle (one pass of the loop at memory.rs:299-303)
JoyCycle ==
    /\ bus' = joypad_cycle(bus)
    /\ ev' = [NoEv EXCEPT !.kind = "cycle"]
    /\ UNCHANGED cpu

\* MemoryBus::write_byte(0xFF0F, 0)
JoyClearIf ==
    /\ bus' = write_byte(bus, AddrIF, 0)
    /\ ev' = [NoEv EXCEPT !.kind = "write"]
    /\ UNCHANGED cpu

JoyNext == JoyKey \/ JoyCycle \/ JoyClearIf

JoySpec == BusInit /\ [][JoyNext]_vars

\* C25, as the specification states it: for each of the 8 buttons and every
\* state of the other 7, a press_button call for a button that was released
\* sets IF bit 4; a press_button call for a button that was already pressed,
\* and a release_button call, leave IF unchanged.
C25Step ==
    (ev'.kind = "key" /\ ev'.addr \in Buttons) =>
        IF ev'.val = 1
        THEN bus.joypad_debounce_counter = 0 =>
               IF Released(bus, ev'.addr)
               THEN ~Released(bus', ev'.addr) /\ Bit(get_if(bus'), Joypad) = 1
               ELSE get_if(bus') = get_if(bus)
        ELSE Released(bus', ev'.addr) /\ get_if(bus') = get_if(bus)

C25_JoypadInterrupt == [][C25Step]_vars

(***************************************************************************)
(* Address decode: CPU reads and writes on a bus with a ROM image of a     *)
(* chosen length.  ev.addr and ev.val are the address and the byte of the  *)
(* last access, ev.ops counts the accesses made.                           *)
(***************************************************************************)
MaxMemOps == 4

\* Image lengths: a header-sized image and a full 32 KiB one
MemRomLens == {336, 32768}

\* An image of the given length with a byte at its start and at its end
MemRom(len) == Rom(len, [a \in {0, len - 1} |-> 49])

\* Written addresses: ROM, VRAM, work RAM, echo RAM, unmapped, HRAM
MemWriteAddrs ==
    {0, 32767, 32768, 49152, 56831, 57343, 57344, 65023, 65184, 65279, 65408}
MemWriteVals == {90, 165}

\* Read addresses
MemReadAddrs == {335, 336, 49152, 57344, 65184}

\* The region an access decodes to, its index and the size of the array
\* behind it (memory.rs:336-388, 417-449; sizes at memory.rs:80-85 and
\* ppu.rs:90-92); a ROM read is indexed only below the image's length
access_index(b, addr) ==
    CASE addr \in 0..32767 ->
           IF addr >= b.rom.len THEN [index |-> 0, size |-> 1]
           ELSE [index |-> addr, size |-> b.rom.len]
      [] addr \in 32768..40959 -> [index |-> addr - 32768, size |-> 8192]
      [] addr \in 40960..49151 ->
           IF addr - 40960 < 8192 THEN [index |-> addr - 40960, size |-> 8192]
           ELSE [index |-> 0, size |-> 1]
      [] addr \in 49152..57343 -> [index |-> addr - 49152, size |-> 8192]
      [] addr \in 57344..65023 -> [index |-> addr - 57344, size |-> 8192]
      [] addr \in 65024..65183 -> [index |-> addr - 65024, size |-> 160]
      [] addr \in 65280..65407 -> [index |-> addr - 65280, size |-> 128]
      [] addr \in 65408..65534 -> [index |-> addr - 65408, size |-> 127]
      [] OTHER -> [index |-> 0, size |-> 1]

\* The first and last address of every arm of the region match
RegionEnds ==
    {0, 16383, 16384, 32767, 32768, 40959, 40960, 49151, 49152, 57343,
     57344, 65023, 65024, 65183, 65184, 65279, 65280, 65407, 65408, 65534,
     65535}

\* Addresses read to observe memory: the region ends, the image's last byte
\* and the first address past it, and the written addresses
Probes == RegionEnds \cup {335, 336, 56831}

MemInit ==
    /\ cpu = CpuReset /\ ev = NoEv
    /\ \E len \in MemRomLens : bus = MemoryBusNew(MemRom(len))

\* MemoryBus::write_byte(addr, v)
MemWrite ==
    /\ ev.ops < MaxMemOps
    /\ \E addr \in MemWriteAddrs, v \in MemWriteVals :
        /\ bus' = write_byte(bus, addr, v)
        /\ ev' = [ev EXCEPT !.kind = "write", !.addr = addr, !.val = v,
                            !.ops = @ + 1]
    /\ UNCHANGED cpu

\* MemoryBus::read_byte(addr)
MemRead ==
    /\ ev.ops < MaxMemOps
    /\ \E addr \in MemReadAddrs :
        \E r \in {read_byte(bus, addr)} :
            /\ bus' = r.bus
            /\ ev' = [ev EXCEPT !.kind = "read", !.addr = addr, !.val = r.val,
                                !.ops = @ + 1]
    /\ UNCHANGED cpu

MemNext == MemWrite \/ MemRead

MemSpec == MemInit /\ [][MemNext]_vars

\* Echo addresses observed
EchoProbes == {57344, 57345, 61440, 65023}

\* C26: after any sequence of writes to work RAM and echo RAM, a read of an
\* address a in 0xE000..0xFDFF returns what a read of a - 0x2000 returns, and
\* a byte written to either address is read at both.
C26Step ==
    /\ \A a \in EchoProbes :
          read_byte(bus', a).val = read_byte(bus', a - 8192).val
    /\ (ev'.kind = "write" /\ ev'.addr \in 57344..65023) =>
          /\ read_byte(bus', ev'.addr).val = ev'.val
          /\ read_byte(bus', ev'.addr - 8192).val = ev'.val
    /\ (ev'.kind = "write" /\ ev'.addr \in 49152..56831) =>
          /\ read_byte(bus', ev'.addr).val = ev'.val
          /\ read_byte(bus', ev'.addr + 8192).val = ev'.val

C26_EchoRam == [][C26Step]_vars

\* 0xC000 holds one byte, written through work RAM, and 0xDDFF another,
\* written through echo RAM at 0xFDFF
C26_Witness ==
    /\ ev.ops = 2 /\ ev.kind = "write" /\ ev.addr = 65023 /\ ev.val = 165
    /\ read_byte(bus, 49152).val = 90 /\ read_byte(bus, 57344).val = 90
    /\ read_byte(bus, 56831).val = 165

\* C27: a read of 0xFEA0..0xFEFF, or of a ROM address at or past the length
\* of the image, returns 0xFF; a write to 0x0000..0x7FFF or 0xFEA0..0xFEFF
\* changes the value read at no address; and every access decodes to an
\* index inside the array it uses.
C27Step ==
    /\ \A a \in {65184, 65216, 65279} : read_byte(bus', a).val = 255
    /\ \A a \in Probes :
          (a < 32768 /\ a >= bus'.rom.len) => read_byte(bus', a).val = 255
    /\ (ev'.kind = "read" /\ (ev'.addr \in 65184..65279
                               \/ (ev'.addr < 32768 /\ ev'.addr >= bus.rom.len))) =>
          ev'.val = 255
    /\ (ev'.kind = "write" /\ (ev'.addr \in 0..32767 \/ ev'.addr \in 65184..65279)) =>
          \A a \in Probes : read_byte(bus', a).val = read_byte(bus, a).val
    /\ \A a \in Probes :
          access_index(bus', a).index < access_index(bus', a).size

C27_UnmappedRegions == [][C27Step]_vars

\* A byte was stored in work RAM, then 0x0000 on a 336-byte image was
\* written, and the read past the image's end has just returned 0xFF
C27_Witness ==
    /\ bus.rom.len = 336 /\ ev.ops = 3 /\ ev.kind = "read" /\ ev.addr = 336
    /\ ev.val = 255 /\ read_byte(bus, 0).val = 49
    /\ read_byte(bus, 49152).val = 90
    /\ bus.memory_access_type = "Read"

\* C28: after reset and after every step, bits 3-0 of F (the low byte of AF)
\* are 0 and bits 7-4 of F are the Z, N, H and C flags that the conditional
\* instructions read.
C28_FlagLowNibble ==
    /\ BitAnd(cpu.af, 15) = 0
    /\ BitAnd(cpu.af, 255) = to_byte(cpu.f)

\* POP AF has just loaded the bytes 0xAB, 0xCF from the stack: F is 0xC0,
\* with Z and N set
C28_Witness ==
    /\ ev.kind = "instr" /\ ev.opcode = OpPOP_AF
    /\ cpu.af = 43968 /\ cpu.f = [z |-> TRUE, n |-> TRUE, h |-> FALSE, c |-> FALSE]

\* Whether both bytes below sp are plain RAM: work RAM, echo RAM or HRAM
StackInRam(sp) ==
    \A a \in {U16(sp - 1), U16(sp - 2)} : a \in 49152..65023 \/ InHram(a)

\* The POP opcode of a PUSH opcode
PopOf(push) == push - 4

\* C29: PUSH rr leaves SP lower by 2 modulo 2^16 and, SP pointing into RAM,
\* the pair's high byte at the old SP-1 and its low byte at the old SP-2; the
\* POP rr that follows it leaves rr with the value it had before the PUSH (AF
\* with its low nibble 0) and SP with the value it had before the PUSH.
C29Step ==
    /\ (ev'.kind = "instr" /\ ev'.opcode \in PushOps) =>
          /\ cpu'.sp = U16(cpu.sp - 2)
          /\ bus'.memory_access_address = U16(cpu.sp - 2)
          /\ StackInRam(cpu.sp) =>
                /\ mem_read(bus', U16(cpu.sp - 1)) = PairOf(cpu, ev'.opcode) \div 256
                /\ mem_read(bus', U16(cpu.sp - 2)) = PairOf(cpu, ev'.opcode) % 256
          /\ PairOf(cpu', ev'.opcode) = PairOf(cpu, ev'.opcode)
    /\ (ev'.kind = "instr" /\ ev.push_op # None /\ ev'.opcode = PopOf(ev.push_op)) =>
          /\ cpu'.sp = ev.push_sp
          /\ StackInRam(ev.push_sp) =>
                PairOf(cpu', ev'.opcode)
                  = (IF ev'.opcode = OpPOP_AF THEN BitAnd(ev.push_val, 65520)
                     ELSE ev.push_val)

C29_PushPopRoundTrip == [][C29Step]_vars

\* HL = 0xABCF was pushed with SP = 0xC002, so that the second byte went to
\* 0xC000, and the POP HL after it has just run (the programme's sixth
\* instruction, 20 m-cycles in)
C29_Witness ==
    /\ ev.kind = "instr" /\ ev.opcode = OpPOP_HL /\ cpu.hl = 43983
    /\ cpu.sp = 49154 /\ mem_read(bus, 49153) = 171 /\ mem_read(bus, 49152) = 207
    /\ cpu.bc = 43983 /\ bus.clock = 20

\* C30: RETI loads PC with the word at SP, adds 2 to SP and leaves IME set
\* when it completes; a RETI that is the first instruction after an interrupt
\* was serviced at PC = p leaves PC = p, SP as it was before the service and
\* IME set; and when an enabled interrupt is pending after a RETI, the next
\* step services it, pushing the address RETI returned to, before any
\* instruction executes.
C30Step ==
    /\ (ev'.kind = "instr" /\ ev'.opcode = OpRETI) =>
          /\ cpu'.pc = mem_read(bus, U16(cpu.sp + 1)) * 256 + mem_read(bus, cpu.sp)
          /\ cpu'.sp = U16(cpu.sp + 2)
          /\ cpu'.ime
    /\ (ev'.kind = "instr" /\ ev'.opcode = OpRETI /\ ev.kind = "service") =>
          /\ cpu'.pc = ev.pc
          /\ cpu'.sp = U16(cpu.sp + 2)
          /\ cpu'.ime
    /\ (ev.kind = "instr" /\ ev.opcode = OpRETI /\ has_pending_interrupts(bus)) =>
          /\ ev'.kind = "service"
          /\ ev'.irq = get_highest_priority_interrupt(bus)
          /\ cpu'.pc = get_interrupt_vector(ev'.irq)
          /\ mem_read(bus', U16(cpu'.sp + 1)) * 256 + mem_read(bus', cpu'.sp) = cpu.pc

C30_Reti == [][C30Step]_vars

\* The programme set IF to 0x1F; VBlank was serviced, its handler's RETI
\* returned to the interrupted programme with LcdStat pending and enabled,
\* and LcdStat has just been serviced from the address RETI returned to
C30_Witness ==
    /\ ev.kind = "service" /\ ev.irq = LcdStat /\ ev.pc >= EntryPoint
    /\ cpu.pc = get_interrupt_vector(LcdStat)
    /\ mem_read(bus, get_interrupt_vector(VBlank)) = OpRETI
    /\ mem_read(bus, EntryPoint + 1) = 31
    /\ Bit(get_if(bus), VBlank) = 0 /\ Bit(get_ie(bus), VBlank) = 1
    /\ ~cpu.ime

\* C31: a scheduler step taken while the CPU is halted and IE & IF & 0x1F is
\* 0 advances the bus by exactly one m-cycle (one MemoryBus::tick: the clock
\* by 1, the divider by 4 t-cycles), leaves every field of the CPU as it was,
\* the CPU halted, and leaves work RAM, HRAM and external RAM unchanged.
C31Step ==
    (cpu.halted /\ ~AnyPending(bus) /\ bus.clock < ev.limit) =>
        /\ bus' = tick(bus)
        /\ bus'.clock = bus.clock + 1
        /\ bus'.timer.div_counter = U16(bus.timer.div_counter + 4)
        /\ cpu' = cpu /\ cpu'.halted
        /\ bus'.wram = bus.wram /\ bus'.hram = bus.hram /\ bus'.eram = bus.eram
        /\ ev'.kind \in {"idle", "stall"}

C31_HaltedIdle == [][C31Step]_vars

\* The CPU has been halted for two idle steps in a row with the timer
\* running and nothing pending
C31_Witness ==
    /\ ev.kind = "idle" /\ ev.halted /\ cpu.halted /\ ~AnyPending(bus)
    /\ bus.timer.tac = 5 /\ bus.timer.tima # 0
    /\ U16(cpu.pc - 1) = U16(ev.halt_ret - 1) /\ mem_read(bus, U16(cpu.pc - 1)) = OpHALT

\* Whether a plain RAM byte is at the address: work RAM, echo RAM or HRAM
RamAt(a) == a \in 49152..65023 \/ InHram(a)

\* The 16-bit operand of the instruction at pc
operand16(m) ==
    mem_read(m.bus, U16(m.cpu.pc + 1)) + 256 * mem_read(m.bus, U16(m.cpu.pc + 2))

\* C32: an instruction step at LD (a16),SP, CALL or CALL NZ completes for every
\* PC, SP and operand address: LD (a16),SP writes SP's low byte to a16 and its
\* high byte to a16 + 1 modulo 2^16 (0x0000 for a16 = 0xFFFF), a taken call
\* pushes PC + 3 modulo 2^16 and jumps to its operand, a call not taken leaves
\* PC at PC + 3 modulo 2^16.
C32Step ==
    ( /\ AtInterruptCheck /\ handle_interrupts(Machine).cycles = 0
      /\ ~stays_halted(Machine) /\ ~cpu.halt_bug
      /\ next_opcode(Machine) \in {OpLD_A16_SP, OpCALL, OpCALL_NZ} ) =>
        /\ ev'.kind = "instr"
        /\ next_opcode(Machine) = OpLD_A16_SP =>
              /\ cpu'.pc = U16(cpu.pc + 3) /\ cpu'.sp = cpu.sp
              /\ bus'.memory_access_address = U16(operand16(Machine) + 1)
              /\ bus'.memory_access_value = cpu.sp \div 256
              /\ RamAt(operand16(Machine)) /\ RamAt(U16(operand16(Machine) + 1)) =>
                    /\ mem_read(bus', operand16(Machine)) = cpu.sp % 256
                    /\ mem_read(bus', U16(operand16(Machine) + 1)) = cpu.sp \div 256
        /\ (next_opcode(Machine) = OpCALL
              \/ (next_opcode(Machine) = OpCALL_NZ /\ ~cpu.f.z)) =>
              /\ cpu'.pc = operand16(Machine)
              /\ cpu'.sp = U16(cpu.sp - 2)
              /\ StackInRam(cpu.sp) =>
                    /\ mem_read(bus', U16(cpu.sp - 1)) = U16(cpu.pc + 3) \div 256
                    /\ mem_read(bus', U16(cpu.sp - 2)) = U16(cpu.pc + 3) % 256
        /\ (next_opcode(Machine) = OpCALL_NZ /\ cpu.f.z) =>
              cpu'.pc = U16(cpu.pc + 3) /\ cpu'.sp = cpu.sp /\ bus'.hram = bus.hram

C32_WrapNoAbort == [][C32Step]_vars

\* The same steps, leaving aside the outcome in which the addition panics:
\* what a build without overflow checks does
C32StepWrapped == ev'.kind = "panic" \/ C32Step

C32_WrappedWhenUnchecked == [][C32StepWrapped]_vars

\* A CALL fetched at 0xFFFD has pushed the return address 0x0000 and jumped to
\* its operand (the high byte is IE as read, 0xE1)
C32_WrappedCall ==
    /\ ev.kind = "instr" /\ ev.opcode = OpCALL /\ ev.pc = 65533
    /\ cpu.sp = 65532 /\ cpu.pc = 57680
    /\ mem_read(bus, 65533) = 0 /\ mem_read(bus, 65532) = 0

(***************************************************************************)
(* SpriteSpec: LCDC and the first MaxSprites OAM entries are written       *)
(* through MemoryBus::write_byte (the PPU is in VBlank after construction, *)
(* so OAM is writable), then Ppu::prepare_sprites_for_scanline is applied  *)
(* on a line.                                                              *)
(***************************************************************************)
\* OAM entries written
MaxSprites == 12
\* LCDC values: objects on with 8 and with 16 lines, objects off
SpriteLcdcs == {147, 151, 145}
\* <<y_pos, x_pos>> of entry i: on lines 0..7 (0..15) to the right and to the
\* left, and for the first entries also below those lines
SpriteChoices(i) ==
    IF i < 3 THEN { <<16, 80>>, <<16, 8>>, <<40, 8>> } ELSE { <<16, 80>>, <<16, 8>> }
\* Lines the scan is applied on
ScanLines == {0, 8}

\* MemoryBus::write_byte(0xFF40, lcdc)
SpriteSetup ==
    /\ ev.kind = "init"
    /\ \E lcdc \in SpriteLcdcs :
          /\ bus' = write_byte(bus, AddrLCDC, lcdc)
          /\ ev' = [ev EXCEPT !.kind = "lcdc", !.val = lcdc]
    /\ UNCHANGED cpu

\* MemoryBus::write_byte of the y and x bytes of the next OAM entry
SpriteStore ==
    /\ ev.kind \in {"lcdc", "store"} /\ ev.ops < MaxSprites
    /\ \E c \in SpriteChoices(ev.ops) :
          /\ bus' = write_byte(write_byte(bus, AddrOAM + 4 * ev.ops, c[1]),
                               AddrOAM + 4 * ev.ops + 1, c[2])
          /\ ev' = [ev EXCEPT !.kind = "store", !.ops = @ + 1]
    /\ UNCHANGED cpu

\* Ppu::prepare_sprites_for_scanline on line ly
SpriteScan ==
    /\ ev.kind = "store" /\ ev.ops = MaxSprites
    /\ \E ly \in ScanLines :
          bus' = [bus EXCEPT !.ppu = prepare_sprites_for_scanline([@ EXCEPT !.ly = ly])]
    /\ ev' = [ev EXCEPT !.kind = "scan"]
    /\ UNCHANGED cpu

SpriteNext == SpriteSetup \/ SpriteStore \/ SpriteScan

SpriteSpec == BusInit /\ [][SpriteNext]_vars

\* OAM indices of the entries on the line: y - 16 <= LY < y - 16 + height
OnLine(p) ==
    { j \in 0..39 :
        /\ ArrGet(p.oam, 4 * j, 0) - 16 <= p.ly
        /\ p.ly < ArrGet(p.oam, 4 * j, 0) - 16 + (IF Bit(p.lcdc, 2) # 0 THEN 16 ELSE 8) }
\* The first ten of a set of indices
FirstTen(S) == { j \in S : Cardinality({ k \in S : k < j }) < 10 }
\* OAM indices of the selected sprites
Selected(p) == { p.scanline_sprites[i].idx : i \in DOMAIN p.scanline_sprites }

\* C33: with objects enabled, the sprites selected for a line are exactly the
\* first ten entries on the line in increasing OAM index order, whatever their
\* X, and never more than ten.
C33_SpriteSelection ==
    (ev.kind = "scan" /\ Bit(bus.ppu.lcdc, 1) = 1) =>
        /\ Selected(bus.ppu) = FirstTen(OnLine(bus.ppu))
        /\ Len(bus.ppu.scanline_sprites) <= 10

\* What holds of the selection: at most ten entries, all of them on the line,
\* every entry on the line when there are at most ten, and none with objects off
C33_SelectionBounded ==
    ev.kind = "scan" =>
        /\ Len(bus.ppu.scanline_sprites) <= 10
        /\ Selected(bus.ppu) \subseteq OnLine(bus.ppu)
        /\ Cardinality(Selected(bus.ppu)) = Len(bus.ppu.scanline_sprites)
        /\ (Cardinality(OnLine(bus.ppu)) <= 10 /\ Bit(bus.ppu.lcdc, 1) = 1) =>
              Selected(bus.ppu) = OnLine(bus.ppu)
        /\ Bit(bus.ppu.lcdc, 1) = 0 => bus.ppu.scanline_sprites = <<>>

(***************************************************************************)
(* OnLineSpec: OamEntry::is_on_scanline applied to every y_pos, every      *)
(* visible line and both sprite heights.                                   *)
(***************************************************************************)
SpriteYs == 0..255
VisibleLines == 0..143
SpriteHeights == {8, 16}

\* An OAM entry's y_pos (val), the line (t) and the sprite height (ops)
OnLineInit ==
    /\ cpu = CpuReset /\ bus = FreshBus
    /\ \E y \in SpriteYs, ly \in VisibleLines, h \in SpriteHeights :
          ev = [NoEv EXCEPT !.val = y, !.t = ly, !.ops = h]

\* OamEntry::is_on_scanline(ly, sprite_size); the result is kept in rose
OnLineApply ==
    /\ ev.kind = "init"
    /\ ev' = [ev EXCEPT !.kind = "online", !.rose = is_on_scanline(ev.val, ev.t, ev.ops)]
    /\ UNCHANGED <<cpu, bus>>

OnLineSpec == OnLineInit /\ [][OnLineApply]_vars

\* C34: an entry is on the line exactly when y - 16 <= LY < y - 16 + h over the
\* integers; an entry with y < 16 is on the lines 0 .. y - 16 + h - 1.
C34_OnScanline ==
    ev.kind = "online" =>
        (ev.rose <=> (ev.val - 16 <= ev.t /\ ev.t < ev.val - 16 + ev.ops))

\* The same for entries that start on or below line 0 (y >= 16)
C34_OnScanlineFrom16 ==
    (ev.kind = "online" /\ ev.val >= 16) =>
        (ev.rose <=> (ev.val - 16 <= ev.t /\ ev.t < ev.val - 16 + ev.ops))

\* No entry with y < 16 is found on any line
C34_NeverAbove16 == (ev.kind = "online" /\ ev.val < 16) => ~ev.rose

(***************************************************************************)
(* RenderSpec: with the LCD off, a scene is written through write_byte     *)
(* (tile data, palettes, the window's first line, two OAM entries on line  *)
(* 0), the LCD is switched on and the PPU runs dot by dot.  Each time it   *)
(* goes from Drawing to HBlank it has rendered a line: line holds the      *)
(* first ViewWidth cells' colours and wline the window line counter the    *)
(* rendering started from.  A scene with 8x16 objects may switch to 8x8    *)
(* objects at the start of Drawing on line 8, after the OAM scan has       *)
(* selected the sprites as 8x16.                                           *)
(***************************************************************************)
\* Dots the PPU is run for after the LCD is switched on: lines 0 to 2, and
\* lines 0 to 8 for a scene with 8x16 objects
MaxRenderDots == 1190
MaxResizeDots == 3930
\* Screen columns whose pixels are kept
ViewWidth == 12
\* The lines on which the objects' size may be switched
ResizeLines == {8}
AddrBGP == 65351
AddrOBP0 == 65352
AddrOBP1 == 65353
AddrWY == 65354

\* LCDC: BG and objects on; BG off; BG, window and objects on
RenderLcdcs == {147, 146, 179}
\* LCDC: BG and 8x16 objects on
TallLcdcs == {151}
\* LCDC, x_pos and attributes of OAM entries 0 and 1, tile of entry 0
RenderScenes ==
    { <<lcdc, ax, aattr, bx, battr, 1>> :
        lcdc \in RenderLcdcs, ax \in {8, 10}, aattr \in {0, 128},
        bx \in {8, 9, 12}, battr \in {0, 128, 16} }
    \cup { <<lcdc, 8, aattr, 12, 0, atile>> :
             lcdc \in TallLcdcs, aattr \in {0, 64}, atile \in {0, 1} }

\* LCD off ; BG tile 0, row 0: colour 1 in columns 0-3, colour 0 in 4-7,
\* row 1: colour 1 in columns 4-7, and row 7: colour 1 in columns 2-5 ; sprite tile 1, row 0: colours
\* 3 2 0 3 2 0 3 2 ; tile 2, row 0: colour 1 in columns 0, 2, 5, 7 ; BGP and
\* OBP0 the identity, OBP1 the reverse ; the window from line 1 ; the two OAM
\* entries ; LCD on
RenderScript(sc) ==
    << <<AddrLCDC, 17>>,
       <<AddrVRAM, 240>>, <<AddrVRAM + 2, 15>>, <<AddrVRAM + 14, 60>>,
       <<AddrVRAM + 16, 146>>, <<AddrVRAM + 17, 219>>, <<AddrVRAM + 32, 165>>,
       <<AddrBGP, 228>>, <<AddrOBP0, 228>>, <<AddrOBP1, 27>>, <<AddrWY, 1>>,
       <<AddrOAM, 16>>, <<AddrOAM + 1, sc[2]>>, <<AddrOAM + 2, sc[6]>>, <<AddrOAM + 3, sc[3]>>,
       <<AddrOAM + 4, 16>>, <<AddrOAM + 5, sc[4]>>, <<AddrOAM + 6, 1>>, <<AddrOAM + 7, sc[5]>>,
       <<AddrLCDC, sc[1]>> >>

\* How many dots a scene is run for
RenderLimit(sc) == IF sc[1] \in TallLcdcs THEN MaxResizeDots ELSE MaxRenderDots

\* MemoryBus::write_byte, one call of the script
RenderSetup ==
    /\ ev.t = 0
    /\ \E sc \in (IF ev.kind = "init" THEN RenderScenes ELSE {ev.scene}) :
        /\ ev.setup < Len(RenderScript(sc))
        /\ \E w \in {RenderScript(sc)[ev.setup + 1]} :
            /\ bus' = write_byte(bus, w[1], w[2])
            /\ ev' = [ev EXCEPT !.kind = "write", !.scene = sc, !.setup = @ + 1]
    /\ UNCHANGED cpu

\* The scene is written and the run goes on
RenderRunning ==
    /\ ev.kind \in {"write", "dot", "rendered", "resize"}
    /\ ev.setup = Len(RenderScript(ev.scene))
    /\ ev.t < RenderLimit(ev.scene)

\* MemoryBus::write_byte(LCDC, v) with bit 2 of LCDC cleared: 8x8 objects
\* from the first dot of Drawing on one of ResizeLines
RenderResize ==
    /\ RenderRunning
    /\ bus.ppu.lcdc \in TallLcdcs /\ bus.ppu.ly \in ResizeLines
    /\ bus.ppu.mode = "Drawing" /\ bus.ppu.mode_cycles = 0
    /\ bus' = write_byte(bus, AddrLCDC, bus.ppu.lcdc - 4)
    /\ ev' = [ev EXCEPT !.kind = "resize"]
    /\ UNCHANGED cpu

\* Ppu::update(1) and, when it returns an interrupt, request_interrupt, in a
\* build in which the call returns; the dot that takes the PPU from Drawing to
\* HBlank renders the line
RenderDot ==
    /\ RenderRunning
    /\ \E checked \in BOOLEAN : ~update_aborts(bus.ppu, 1, checked)
    /\ \E r \in {ppu_update(bus.ppu, 1)} :
        /\ bus' = IF r.irq # None
                  THEN request_interrupt([bus EXCEPT !.ppu = r.ppu], r.irq)
                  ELSE [bus EXCEPT !.ppu = r.ppu]
        /\ ev' = [ev EXCEPT
                    !.kind = IF update_renders(bus.ppu, 1) THEN "rendered" ELSE "dot",
                    !.t = @ + 1,
                    !.wline = bus.ppu.window_line,
                    !.line = IF update_renders(bus.ppu, 1)
                             THEN [x \in 1..ViewWidth |->
                                     scanline_cell(update_render_input(bus.ppu), x - 1).color]
                             ELSE @]
    /\ UNCHANGED cpu

\* Ppu::update(1) in a build in which render_scanline panics: the PPU is left
\* as it was at the panic, and the run ends; ev.rose tells whether only a
\* build with overflow checks ends here
RenderPanic ==
    /\ RenderRunning
    /\ \E checked \in BOOLEAN :
        /\ update_aborts(bus.ppu, 1, checked)
        /\ bus' = [bus EXCEPT !.ppu = update_panic_state(bus.ppu, 1)]
        /\ ev' = [ev EXCEPT !.kind = "panic", !.t = @ + 1,
                            !.rose = ~update_aborts(bus.ppu, 1, FALSE)]
    /\ UNCHANGED cpu

RenderNext == RenderSetup \/ RenderResize \/ RenderDot \/ RenderPanic

RenderSpec == BusInit /\ [][RenderNext]_vars

\* The PPU as the last rendering found it: the window line counter is the one
\* the line was drawn from
RenderedPpu == [bus.ppu EXCEPT !.window_line = ev.wline]

\* The selected sprites with a non-zero colour at column x
Covering(p, x) ==
    { i \in DOMAIN p.scanline_sprites : sprite_color_idx(p, p.scanline_sprites[i], x) # 0 }
\* Among them the one with the smallest X, and the smallest OAM index among equals
Winner(p, x) ==
    p.scanline_sprites[
        CHOOSE i \in Covering(p, x) : \A j \in Covering(p, x) :
            \/ p.scanline_sprites[i].x_pos < p.scanline_sprites[j].x_pos
            \/ /\ p.scanline_sprites[i].x_pos = p.scanline_sprites[j].x_pos
               /\ p.scanline_sprites[i].idx <= p.scanline_sprites[j].idx ]
\* The background or window cell at column x
Backdrop(p, x) ==
    IF Bit(p.lcdc, 0) = 0 THEN [color |-> 0, nonzero |-> FALSE]
    ELSE IF Bit(p.lcdc, 5) # 0 THEN render_window(p, render_background(p, x), x)
    ELSE render_background(p, x)
\* The colour of a sprite at column x
SpriteColor(p, s, x) ==
    get_color(sprite_color_idx(p, s, x),
              IF Bit(s.attributes, 4) # 0 THEN p.obp1 ELSE p.obp0)
\* The pixel the priority rules give: the backdrop where no sprite has a
\* non-zero colour, and where the winner has attribute bit 7 and the backdrop
\* is non-zero with LCDC.0 set; the winner's colour elsewhere
PixelByRule(p, x) ==
    IF Covering(p, x) = {} THEN Backdrop(p, x).color
    ELSE IF /\ Bit(Winner(p, x).attributes, 7) # 0
            /\ Backdrop(p, x).nonzero /\ Bit(p.lcdc, 0) # 0
    THEN Backdrop(p, x).color
    ELSE SpriteColor(p, Winner(p, x), x)

\* C35: in a rendered line, a sprite pixel of colour 0 leaves the pixel as it
\* is; among the selected sprites that overlap, the one with the smaller X
\* (the smaller OAM index among equals) determines the pixel; with attribute
\* bit 7 it is never shown over a non-zero background or window colour while
\* LCDC.0 is set, whatever other sprites cover the pixel; with bit 7 clear it
\* is shown.
C35_SpritePriority ==
    ev.kind = "rendered" =>
        \A x \in 0..(ViewWidth - 1) : ev.line[x + 1] = PixelByRule(RenderedPpu, x)

\* The same where at most one selected sprite has a non-zero colour
C35_SingleSprite ==
    ev.kind = "rendered" =>
        \A x \in 0..(ViewWidth - 1) :
            Cardinality(Covering(RenderedPpu, x)) <= 1 =>
                ev.line[x + 1] = PixelByRule(RenderedPpu, x)

\* The same where the sprite that determines the pixel has bit 7 clear, or the
\* backdrop is colour 0
C35_WinnerInFront ==
    ev.kind = "rendered" =>
        \A x \in 0..(ViewWidth - 1) :
            (Covering(RenderedPpu, x) # {}
               /\ (Bit(Winner(RenderedPpu, x).attributes, 7) = 0
                     \/ ~Backdrop(RenderedPpu, x).nonzero)) =>
                ev.line[x + 1] = SpriteColor(RenderedPpu, Winner(RenderedPpu, x), x)

\* The dot counter within the line: the dots of the line's earlier modes and
\* mode_cycles, the dots spent in the current one
DotInLine(p) ==
    CASE p.mode = "OamScan" -> p.mode_cycles
      [] p.mode = "Drawing" -> 80 + p.mode_cycles
      [] p.mode = "HBlank"  -> 80 + 172 + sprite_cycles(p) + p.mode_cycles
      [] p.mode = "VBlank"  -> p.mode_cycles

\* C36: in every state with the LCD on, the mode is VBlank exactly when LY is
\* in 144..153 and one of OamScan, Drawing, HBlank exactly when LY is in
\* 0..143; LY is in 0..153 and the dot counter within the line is below 456.
C36_ModeMatchesLy ==
    lcd_enabled(bus.ppu) =>
        /\ bus.ppu.ly \in 0..153
        /\ bus.ppu.mode = "VBlank" <=> bus.ppu.ly \in 144..153
        /\ bus.ppu.mode \in {"OamScan", "Drawing", "HBlank"} <=> bus.ppu.ly \in 0..143
        /\ DotInLine(bus.ppu) < 456

\* The same, leaving aside the VBlank the PPU is constructed in (the only
\* VBlank that frame_ready does not accompany)
C36_AfterFirstVBlank ==
    (lcd_enabled(bus.ppu) /\ ~(bus.ppu.mode = "VBlank" /\ ~bus.ppu.frame_ready)) =>
        /\ bus.ppu.ly \in 0..153
        /\ bus.ppu.mode = "VBlank" <=> bus.ppu.ly \in 144..153
        /\ bus.ppu.mode \in {"OamScan", "Drawing", "HBlank"} <=> bus.ppu.ly \in 0..143
        /\ DotInLine(bus.ppu) < 456

\* LY and the dot counter stay in range in the first VBlank as well
C36_Ranges ==
    lcd_enabled(bus.ppu) => (bus.ppu.ly \in 0..153 /\ DotInLine(bus.ppu) < 456)

\* C37: the bus blocks non-HRAM CPU accesses (memory_access_type is DMA)
\* exactly when an OAM DMA transfer is active (bytes remain to be copied), so
\* the lockout neither ends before the 160th byte is copied nor outlasts the
\* transfer, HRAM accesses during the transfer included.
C37_LockoutMatchesTransfer ==
    (bus.memory_access_type = "DMA") <=> bus.ppu.oam_dma_active

\* The lockout never outlasts the transfer
C37_LockoutWithinTransfer ==
    (bus.memory_access_type = "DMA") => bus.ppu.oam_dma_active

(***************************************************************************)
(* RunSpec: Emulator::run_until_frame called on the machine after reset,   *)
(* for programmes that leave the LCD on, switch it off, or switch it off   *)
(* and on again, and then loop.  ev.cycles_this_frame is the local sum the *)
(* call returns.  A run is followed until the bus clock reaches            *)
(* MaxRunClock, which is more than the m-cycles of two frames and more     *)
(* than the 16384 m-cycles after which the divider is back where it was.   *)
(***************************************************************************)
\* The m-cycles a run is followed for
MaxRunClock == 35200

\* Emulator::step: returns the machine and the m-cycles taken
emulator_step(m) ==
    IF is_memory_access_in_progress(m.bus)
    THEN [cpu |-> m.cpu, bus |-> tick(m.bus), m_cycles |-> 1]
    ELSE Then(handle_interrupts(m), LAMBDA h :
        IF h.cycles # 0
        THEN [cpu |-> h.cpu, bus |-> TickN(h.bus, t_to_m_cycles(h.cycles)),
              m_cycles |-> t_to_m_cycles(h.cycles)]
        ELSE Then(cpu_tick(m), LAMBDA r :
            [cpu |-> r.cpu, bus |-> TickN(r.bus, r.m_cycles), m_cycles |-> r.m_cycles]))

\* Ppu::is_frame_ready: the flag, which is set for one read
is_frame_ready(p) == [ppu |-> [p EXCEPT !.frame_ready = FALSE], val |-> p.frame_ready]

\* What a programme does before it loops: nothing; LCD off; LCD off and on
\* again
RunPreludes ==
    [ on      |-> <<>>,
      off     |-> SetIo(64, 17),
      restart |-> SetIo(64, 17) \o SetIo(64, 145) ]
\* The loop after a prelude: JP to itself
BusyLoop(pre) ==
    pre \o <<OpJP, (EntryPoint + Len(pre)) % 256, (EntryPoint + Len(pre)) \div 256>>
RunRoms ==
    { RomImage(BusyLoop(RunPreludes[k]), OpRETI) : k \in {"on", "off", "restart"} }

\* Emulator::new
RunInit ==
    /\ cpu = CpuReset
    /\ \E rom \in RunRoms : bus = MemoryBusNew(rom)
    /\ ev = NoEv

\* The machine m without Cpu::cycle_count and Clock::m_cycles, the two
\* counters that are added to and never read (cpu.rs:311, clock.rs:18)
Core(m) == [cpu |-> [m.cpu EXCEPT !.cycle_count = 0],
            bus |-> [m.bus EXCEPT !.clock = 0]]

\* The CPU of machine m is about to execute a JP to its own address
AtBusyLoop(m) ==
    /\ ~m.cpu.halted /\ ~is_memory_access_in_progress(m.bus)
    /\ mem_read(m.bus, m.cpu.pc) = OpJP
    /\ mem_read(m.bus, U16(m.cpu.pc + 1))
         + 256 * mem_read(m.bus, U16(m.cpu.pc + 2)) = m.cpu.pc

\* run_until_frame, one iteration of the loop: the flag is not set, step, and
\* the m-cycles are added to cycles_this_frame (a u32, which a run of
\* MaxRunClock m-cycles does not fill).  ev.mark keeps the machine, counters
\* aside, as the first iteration that executed the programme's JP left it,
\* and ev.mark_at the m-cycles added by then.
RunStep ==
    /\ ev.kind \in {"init", "run"}
    /\ bus.clock < MaxRunClock
    /\ ~is_frame_ready(bus.ppu).val
    /\ \E r \in {emulator_step(Machine)} :
          /\ cpu' = r.cpu
          /\ bus' = r.bus
          /\ ev' = [ev EXCEPT !.kind = "run",
                              !.cycles_this_frame = @ + r.m_cycles,
                              !.mark = IF @ = {} /\ AtBusyLoop(Machine)
                                       THEN {Core(r)} ELSE @,
                              !.mark_at = IF ev.mark = {} /\ AtBusyLoop(Machine)
                                          THEN ev.cycles_this_frame + r.m_cycles
                                          ELSE @]

\* run_until_frame, the flag is set: it is read, and the function returns
RunReturn ==
    /\ ev.kind \in {"init", "run"}
    /\ is_frame_ready(bus.ppu).val
    /\ bus' = [bus EXCEPT !.ppu = is_frame_ready(bus.ppu).ppu]
    /\ ev' = [ev EXCEPT !.kind = "returned"]
    /\ UNCHANGED cpu

RunNext == RunStep \/ RunReturn

RunSpec == RunInit /\ [][RunNext]_vars

\* C38: run_until_frame, called on any reachable machine state, eventually
\* observes the frame-ready flag and returns.  Every iteration is a function
\* of the machine that reads neither Cpu::cycle_count nor Clock::m_cycles, so
\* a call that returns never has the machine, before it returns, in a state
\* (the two counters aside) in which an earlier iteration of the same call
\* left it: from such a state the iterations repeat for ever.
C38_RunUntilFrameReturns ==
    ~(/\ ev.kind = "run"
      /\ ev.cycles_this_frame > ev.mark_at
      /\ Core(Machine) \in ev.mark)

\* An iteration does the same to a machine whatever the two counters hold
C38_CountersNotRead ==
    ev.kind \in {"init", "run"} =>
        /\ Core(emulator_step(Machine)) = Core(emulator_step(Core(Machine)))
        /\ emulator_step(Machine).m_cycles = emulator_step(Core(Machine)).m_cycles

\* A call has returned
C38_Returned == ev.kind = "returned"

\* A call made with the LCD on from reset has returned, after more than a
\* frame's m-cycles
C38_ReturnedWithLcdOn ==
    /\ ev.kind = "returned" /\ mem_read(bus, EntryPoint) = OpJP
    /\ ev.cycles_this_frame > (154 * 456) \div 4

\* The LCD is off and the CPU, with IME clear, is at a JP to its own address
RunStuck ==
    /\ ev.kind = "run"
    /\ ~lcd_enabled(bus.ppu) /\ ~bus.ppu.frame_ready
    /\ ~cpu.ime /\ AtBusyLoop(Machine)

\* Once the LCD is off and the CPU is at a JP to itself, every iteration of
\* run_until_frame leaves the machine there, and the call has not returned
C38_StuckStaysStuck == [][RunStuck => (RunStuck' /\ ev'.kind = "run")]_vars

\* The calls followed for MaxRunClock m-cycles without returning are those
\* whose machine is stuck with the LCD off: every other call has returned
C38_OthersReturn ==
    (ev.kind \in {"init", "run"} /\ bus.clock >= MaxRunClock) => RunStuck

\* The call has added the m-cycles of more than a frame and still steps a
\* machine whose LCD is off
C38_StuckPastAFrame == RunStuck /\ ev.cycles_this_frame > (154 * 456) \div 4

(***************************************************************************)
(* Serial control rewritten during a transfer: after IF is cleared and SB  *)
(* written, SC is written and the serial clock advanced one t-cycle per    *)
(* step, in any order.  ev.irq is the request made by the last t-cycle.    *)
(***************************************************************************)
ScData == {165}
ScControls == {129, 1, 128, 0}

\* MemoryBus::write_byte: IF cleared, then SB
ScSetup ==
    /\ ev.setup < 2
    /\ \/ /\ ev.setup = 0
          /\ bus' = write_byte(bus, AddrIF, 0)
          /\ ev' = [ev EXCEPT !.kind = "write", !.setup = 1]
       \/ /\ ev.setup = 1
          /\ \E v \in ScData :
               /\ bus' = write_byte(bus, AddrSB, v)
               /\ ev' = [ev EXCEPT !.kind = "write", !.setup = 2, !.wrote = v]
    /\ UNCHANGED cpu

\* MemoryBus::write_byte(0xFF02, v)
ScWrite ==
    /\ ev.setup = 2
    /\ \E v \in ScControls :
         /\ bus' = write_byte(bus, AddrSC, v)
         /\ ev' = [ev EXCEPT !.kind = "write", !.val = v, !.irq = None]
    /\ UNCHANGED cpu

\* MemoryBus::update_serial_cycle and, when it returns true,
\* request_interrupt(Serial) (one pass of the loop at memory.rs:293-297)
ScCycle ==
    /\ ev.setup = 2
    /\ \E r \in {update_serial_cycle(bus)} :
        /\ bus' = IF r.irq THEN request_interrupt(r.bus, Serial) ELSE r.bus
        /\ ev' = [ev EXCEPT !.kind = "cycle",
                            !.irq = IF r.irq THEN Serial ELSE None]
    /\ UNCHANGED cpu

ScNext == ScSetup \/ ScWrite \/ ScCycle

ScSpec == BusInit /\ [][ScNext]_vars

\* C39: after any sequence of writes to SC and t-cycles a transfer is in
\* progress only while SC bit 7 reads 1, and a t-cycle made while SC bit 7
\* reads 0 neither shifts SB nor requests the Serial interrupt.
C39Step ==
    /\ bus'.serial_transfer_active => Bit(mem_read(bus', AddrSC), 7) = 1
    /\ (ev'.kind = "cycle" /\ Bit(mem_read(bus, AddrSC), 7) = 0) =>
          /\ bus'.serial_data = bus.serial_data
          /\ bus'.serial_bit_counter = bus.serial_bit_counter
          /\ ev'.irq = None

C39_TransferFollowsBit7 == [][C39Step]_vars

\* A t-cycle made while SC bit 7 reads 0 neither shifts SB nor requests the
\* Serial interrupt
C39_IdleWhileClearStep ==
    (ev'.kind = "cycle" /\ Bit(mem_read(bus, AddrSC), 7) = 0) =>
        /\ mem_read(bus', AddrSB) = mem_read(bus, AddrSB)
        /\ ev'.irq = None

C39_IdleWhileClear == [][C39_IdleWhileClearStep]_vars

\* No Serial interrupt is requested by a t-cycle made while SC bit 7 reads 0
C39_NoRequestWhileClearStep ==
    (ev'.kind = "cycle" /\ Bit(mem_read(bus, AddrSC), 7) = 0) => ev'.irq = None

C39_NoRequestWhileClear == [][C39_NoRequestWhileClearStep]_vars

\* While SC bit 7 reads 1 a transfer is in progress
C39_Bit7ImpliesTransfer ==
    Bit(mem_read(bus, AddrSC), 7) = 1 => bus.serial_transfer_active

\* SB is shifted and the Serial interrupt requested only by a t-cycle of a
\* transfer in progress
C39_ShiftOnlyInTransferStep ==
    (ev'.kind = "cycle" /\ ~bus.serial_transfer_active) =>
        /\ mem_read(bus', AddrSB) = mem_read(bus, AddrSB)
        /\ ev'.irq = None

C39_ShiftOnlyInTransfer == [][C39_ShiftOnlyInTransferStep]_vars

(***************************************************************************)
(* The timer's edge latch, over the operations of TimerSpec                *)
(***************************************************************************)
\* C40: after every timer operation (a t-cycle, a write to DIV, TAC, TIMA or
\* TMA) the stored previous AND-result equals the selected divider bit AND TAC
\* bit 2 of the current registers; and an operation that starts outside the
\* overflow reload window adds exactly one to TIMA when that signal falls
\* across it and nothing when it does not (a TIMA write stores its value).
C40Step ==
    /\ bus'.timer.previous_and_result = Signal(bus'.timer)
    /\ (ev' # ev /\ ~bus.timer.tima_overflow) =>
          IF ev'.kind = "write" /\ ev'.addr = AddrTIMA
          THEN mem_read(bus', AddrTIMA) = ev'.val
          ELSE IF Signal(bus.timer) /\ ~Signal(bus'.timer)
          THEN mem_read(bus', AddrTIMA) = (bus.timer.tima + 1) % 256
          ELSE mem_read(bus', AddrTIMA) = bus.timer.tima

C40_EdgeLatch == [][C40Step]_vars

\* The stored AND-result equals the signal of the current registers
C40_LatchIsSignal == bus.timer.previous_and_result = Signal(bus.timer)

\* A write of 1 to TAC between t-cycles has just disabled a timer whose signal
\* was 1: TIMA went up by one and the stored AND-result is 0
C40_Witness ==
    /\ ev.kind = "write" /\ ev.addr = AddrTAC /\ ev.val = 1 /\ ev.t > 0
    /\ ev.tima < 255 /\ bus.timer.tima = ev.tima + 1
    /\ ~bus.timer.previous_and_result /\ ~Signal(bus.timer)

\* A write to TAC between t-cycles has just raised the signal, and the stored
\* AND-result is 1
C40_RaisedByWrite ==
    /\ ev.kind = "write" /\ ev.addr = AddrTAC /\ ev.t > 0
    /\ bus.timer.previous_and_result /\ Signal(bus.timer)
    /\ bus.timer.tima = ev.tima

(***************************************************************************)
(* OamDmaSpec: the PPU's own transfer methods, Ppu::process_oam_dma and    *)
(* Ppu::process_dma_byte, called on bus.ppu after a write to 0xFF46.  No   *)
(* code of the emulator calls them (MemoryBus::tick copies the bytes       *)
(* itself), a host can: they are public, as bus.ppu is.  The closure       *)
(* handed to process_oam_dma reads the bus.  ev.ops counts the calls and   *)
(* ev.rose is the bool process_oam_dma returned.                           *)
(***************************************************************************)
\* Calls of a run
MaxDmaCalls == 163

\* Work RAM bytes 0, 3 and 159, then the transfer from page 0xC0
OamDmaScript ==
    << <<49152, 90>>, <<49155, 66>>, <<49311, 90>>, <<AddrDMA, 192>> >>

\* The bytes handed to process_dma_byte, and the positions at which it is called
OamDmaBytes == {90, 7}
OamDmaByteAt == {0, 3, 159, 160}

\* MemoryBus::write_byte, one call of the script
OamDmaSetup ==
    /\ ev.setup < Len(OamDmaScript)
    /\ \E w \in {OamDmaScript[ev.setup + 1]} :
        /\ bus' = write_byte(bus, w[1], w[2])
        /\ ev' = [ev EXCEPT !.kind = "write", !.addr = w[1], !.val = w[2],
                            !.setup = @ + 1]
    /\ UNCHANGED cpu

\* The script is written and the run goes on
OamDmaRunning ==
    /\ ev.kind \in {"write", "process", "byte"}
    /\ ev.setup = Len(OamDmaScript)
    /\ ev.ops < MaxDmaCalls

\* Ppu::process_oam_dma(|a| the byte the bus holds at a)
OamDmaProcess ==
    /\ OamDmaRunning
    /\ \E r \in {process_oam_dma(bus.ppu, mem_read(bus, process_oam_dma_addr(bus.ppu)))} :
        /\ bus' = [bus EXCEPT !.ppu = r.ppu]
        /\ ev' = [ev EXCEPT !.kind = "process", !.addr = bus.ppu.oam_dma_byte,
                            !.val = None, !.rose = r.val, !.ops = @ + 1]
    /\ UNCHANGED cpu

\* Ppu::process_dma_byte(v), when it returns
OamDmaByte ==
    /\ OamDmaRunning
    /\ bus.ppu.oam_dma_byte \in OamDmaByteAt
    /\ ~process_dma_byte_aborts(bus.ppu)
    /\ \E v \in OamDmaBytes :
        /\ bus' = [bus EXCEPT !.ppu = process_dma_byte(bus.ppu, v)]
        /\ ev' = [ev EXCEPT !.kind = "byte", !.addr = bus.ppu.oam_dma_byte,
                            !.val = v, !.ops = @ + 1]
    /\ UNCHANGED cpu

\* Ppu::process_dma_byte(v) at position 160: the store panics (index out of
\* bounds, in every build) before anything is written, and the run ends
OamDmaPanic ==
    /\ OamDmaRunning
    /\ process_dma_byte_aborts(bus.ppu)
    /\ \E v \in OamDmaBytes :
        ev' = [ev EXCEPT !.kind = "panic", !.addr = bus.ppu.oam_dma_byte,
                         !.val = v, !.ops = @ + 1]
    /\ UNCHANGED <<cpu, bus>>

OamDmaNext == OamDmaSetup \/ OamDmaProcess \/ OamDmaByte \/ OamDmaPanic

OamDmaSpec == BusInit /\ [][OamDmaNext]_vars

\* A call of either method stores one byte at the transfer's position and
\* moves the position by one; it leaves the bus clock and the bus's own
\* countdown of the transfer alone
OamDmaCallStep ==
    (ev'.kind \in {"process", "byte"} /\ bus.ppu.oam_dma_active
        /\ bus.ppu.oam_dma_byte < 160) =>
        /\ ArrGet(bus'.ppu.oam, ev'.addr, 0) =
              IF ev'.kind = "byte" THEN ev'.val
              ELSE mem_read(bus, 49152 + ev'.addr)
        /\ bus'.ppu.oam_dma_byte = IF ev'.kind = "byte" THEN (ev'.addr + 1) % 160
                                   ELSE ev'.addr + 1
        /\ bus'.ppu.oam_dma_active = (ev'.kind = "process" \/ ev'.addr < 159)
        /\ bus'.clock = bus.clock
        /\ bus'.memory_access_cycles_remaining = bus.memory_access_cycles_remaining
OamDmaCallStores == [][OamDmaCallStep]_vars

\* process_oam_dma has stored byte 159: the transfer is still active, at
\* position 160
OamDmaAtEnd ==
    /\ ev.kind = "process" /\ ev.addr = 159
    /\ bus.ppu.oam_dma_active /\ bus.ppu.oam_dma_byte = 160
    /\ ArrGet(bus.ppu.oam, 159, 0) = 90

\* process_dma_byte has stored byte 159: the transfer is over
OamDmaByteEnds ==
    /\ ev.kind = "byte" /\ ev.addr = 159
    /\ ~bus.ppu.oam_dma_active /\ bus.ppu.oam_dma_byte = 0
    /\ bus.ppu.oam_entries = bus.ppu.oam

\* Between the bytes of an entry oam_entries lags behind OAM
OamDmaEntryLags ==
    /\ ev.kind \in {"process", "byte"} /\ bus.ppu.oam_dma_byte = 1
    /\ ArrGet(bus.ppu.oam, 0, 0) # ArrGet(bus.ppu.oam_entries, 0, 0)

(***************************************************************************)
(* PpuApiSpec: the PPU run dot by dot as in LcdSpec, with the window on,   *)
(* and Ppu::reset_window_line, Ppu::set_vram_accessible and                *)
(* Ppu::set_oam_accessible called on bus.ppu between dots.  No code of the *)
(* emulator calls the three; they are public ("used by games for special   *)
(* effects", "for debugging/testing").  ev.t counts the dots and ev.ops    *)
(* the calls.                                                              *)
(***************************************************************************)
\* Dots of a run, and calls made between them
MaxApiDots == 1900
MaxApiCalls == 1

AddrWX == 65355
\* LCD off ; the window at the left edge ; LCD, window and BG on
PpuApiScript == << <<AddrLCDC, 17>>, <<AddrWX, 7>>, <<AddrLCDC, 177>> >>

\* The dot of a mode on which a call is made
ApiCallCycles == {20}

\* MemoryBus::write_byte, one call of the script
PpuApiSetup ==
    /\ ev.setup < Len(PpuApiScript)
    /\ \E w \in {PpuApiScript[ev.setup + 1]} :
        /\ bus' = write_byte(bus, w[1], w[2])
        /\ ev' = [ev EXCEPT !.kind = "write", !.addr = w[1], !.val = w[2],
                            !.setup = @ + 1]
    /\ UNCHANGED cpu

\* Ppu::update(1) and, when it returns an interrupt, request_interrupt
\* (one pass of the loop at memory.rs:286-291)
PpuApiDot ==
    /\ ev.setup = Len(PpuApiScript)
    /\ ev.t < MaxApiDots
    /\ \E r \in {ppu_update(bus.ppu, 1)} :
        /\ bus' = IF r.irq # None
                  THEN request_interrupt([bus EXCEPT !.ppu = r.ppu], r.irq)
                  ELSE [bus EXCEPT !.ppu = r.ppu]
        /\ ev' = [ev EXCEPT !.kind = "dot", !.addr = None, !.val = None,
                            !.irq = r.irq, !.t = @ + 1]
    /\ UNCHANGED cpu

\* A call can be made here
PpuApiCallHere ==
    /\ ev.setup = Len(PpuApiScript)
    /\ ev.ops < MaxApiCalls
    /\ bus.ppu.mode_cycles \in ApiCallCycles

\* Ppu::reset_window_line
PpuApiResetWindowLine ==
    /\ PpuApiCallHere
    /\ bus' = [bus EXCEPT !.ppu = reset_window_line(bus.ppu)]
    /\ ev' = [ev EXCEPT !.kind = "reset_window_line", !.addr = None, !.val = None,
                        !.ops = @ + 1]
    /\ UNCHANGED cpu

\* Ppu::set_vram_accessible(a)
PpuApiSetVramAccessible ==
    /\ PpuApiCallHere
    /\ \E a \in BOOLEAN :
        /\ bus' = [bus EXCEPT !.ppu = set_vram_accessible(bus.ppu, a)]
        /\ ev' = [ev EXCEPT !.kind = "set_vram_accessible", !.addr = None,
                            !.val = None, !.rose = a, !.ops = @ + 1]
    /\ UNCHANGED cpu

\* Ppu::set_oam_accessible(a)
PpuApiSetOamAccessible ==
    /\ PpuApiCallHere
    /\ \E a \in BOOLEAN :
        /\ bus' = [bus EXCEPT !.ppu = set_oam_accessible(bus.ppu, a)]
        /\ ev' = [ev EXCEPT !.kind = "set_oam_accessible", !.addr = None,
                            !.val = None, !.rose = a, !.ops = @ + 1]
    /\ UNCHANGED cpu

PpuApiNext ==
    \/ PpuApiSetup \/ PpuApiDot
    \/ PpuApiResetWindowLine \/ PpuApiSetVramAccessible \/ PpuApiSetOamAccessible

PpuApiSpec == BusInit /\ [][PpuApiNext]_vars

\* A call changes the one field it names: the line, the mode, the dot
\* counter and LCDC stay, and so does the other access flag
PpuApiCallStep ==
    ev'.kind \in {"reset_window_line", "set_vram_accessible", "set_oam_accessible"} =>
        /\ bus'.ppu.ly = bus.ppu.ly /\ bus'.ppu.mode = bus.ppu.mode
        /\ bus'.ppu.mode_cycles = bus.ppu.mode_cycles /\ bus'.ppu.lcdc = bus.ppu.lcdc
        /\ bus'.ppu.window_line =
              IF ev'.kind = "reset_window_line" THEN 0 ELSE bus.ppu.window_line
        /\ bus'.ppu.vram_accessible =
              IF ev'.kind = "set_vram_accessible" THEN ev'.rose ELSE bus.ppu.vram_accessible
        /\ bus'.ppu.oam_accessible =
              IF ev'.kind = "set_oam_accessible" THEN ev'.rose ELSE bus.ppu.oam_accessible
PpuApiCallSetsOneField == [][PpuApiCallStep]_vars

\* The window line counter was reset in Drawing on line 3, where it was 3
PpuApiLineReset ==
    /\ ev.kind = "reset_window_line"
    /\ bus.ppu.mode = "Drawing" /\ bus.ppu.ly = 3 /\ bus.ppu.window_line = 0

\* VRAM was opened in Drawing, OAM staying locked
PpuApiVramOpened ==
    /\ ev.kind = "set_vram_accessible"
    /\ bus.ppu.mode = "Drawing" /\ bus.ppu.vram_accessible /\ ~bus.ppu.oam_accessible

\* After a reset in Drawing on line 3 the window is drawn from its row 0 on
\* that line, and the counter is 1 on line 4
PpuApiWindowRestarts ==
    /\ ev.kind = "dot" /\ ev.ops = 1
    /\ bus.ppu.ly = 4 /\ bus.ppu.window_line = 1

====
